---- MODULE Spec2Model ----
(***************************************************************************)
(* Model of the month-over-month trend aggregation of the logistics        *)
(* dashboard (src/Logisticsdata.py): the sheet is loaded once, every       *)
(* widget change reruns the script, and each rerun recomputes the filtered *)
(* frame, the grouped trend table, the summary ("average") row and the     *)
(* period-over-period deltas.                                              *)
(*                                                                         *)
(* Numbers are exact rationals <<n, d>> in lowest terms with d > 0; the    *)
(* missing number (pandas NaN) is <<0, 0>>.  The text of a cell is the     *)
(* sequence of its characters; a missing cell of a text column is NaN.     *)
(* Column names and status labels are ASCII stand-ins of the Chinese ones, *)
(* chosen so that their string order is the order of the originals.        *)
(***************************************************************************)
EXTENDS Integers, Sequences, FiniteSets, TLC

VARIABLES
  df_sheet,            \* the sheet as read_excel returns it, before load_data's cleaning
  df_red,              \* the loaded sheet (result of load_data), a sequence of rows
  trend_dimension,     \* radio "trend_dimension"
  analysis_dimension,  \* the dimension of the last run: the radio's, after the column check
  start_month,         \* selectbox "trend_start_month"
  end_month,           \* selectbox "trend_end_month"
  delay_filter,        \* radio "trend_delay_filter"
  view_mode,           \* radio "trend_view_mode"
  selected_dimension,  \* chosen forwarder / warehouse, or NoSelection ("all")
  df_trend_filtered,   \* the filtered frame of the last run
  trend_data,          \* the grouped, sorted trend table of the last run
  df_with_avg,         \* summary row + trend table + delta columns of the last run
  notices,             \* the messages the last run wrote
  sessions,            \* concurrent runs of the script: each one's position and own frames
  selected_month,      \* selectbox "month_selector_current"
  core_cards,          \* the five core indicator cards of the last run
  histogram,           \* the text histogram of the deviations of the last run
  current_month,       \* the argument of a call of get_prev_month
  prev_month,          \* what that call returned
  selected_month_filter,      \* selectbox "filter_month_single"
  selected_warehouse_filter,  \* selectbox "filter_warehouse_single"
  selected_freight_filter,    \* selectbox "filter_freight_single"
  selected_status_filter,     \* selectbox "filter_status_single"
  df_filtered          \* the rows under the source-data filters, or the error raised

sheet_vars == <<df_sheet, df_red>>

trend_vars == <<trend_dimension, analysis_dimension, start_month, end_month, delay_filter,
                view_mode, selected_dimension, df_trend_filtered, trend_data,
                df_with_avg, notices>>

session_vars == <<sessions>>

month_vars == <<selected_month, core_cards, histogram>>

call_vars == <<current_month, prev_month>>

source_vars == <<selected_month_filter, selected_warehouse_filter, selected_freight_filter,
                 selected_status_filter, df_filtered>>

vars == <<sheet_vars, trend_vars, session_vars, month_vars, call_vars, source_vars>>

(***************************************************************************)
(* Bounds of the model.                                                    *)
(***************************************************************************)
MaxRecords == 3

\* The rows of a sheet that lacks the forwarder or the warehouse column.
MaxRecordsNoColumn == 1

\* Rows of a sheet that two concurrent runs read.
MaxRecordsConcurrent == 2

\* Rows of a sheet of the current-month section.
MaxRecordsMonth == 4

\* Rows of a sheet of the source-data section.
MaxRecordsSource == 3

(***************************************************************************)
(* Column names and labels.                                                *)
(***************************************************************************)
COL_DELIVERY_MONTH == "arrival_month"
COL_DELAY_STATUS == "status"
COL_FBA_NO == "fba_no"
COL_FREIGHT == "freight"
COL_WAREHOUSE == "warehouse"
COL_DIFF == "diff"
COL_ABS_DIFF == "abs_diff"
COL_COUNT == "order_count"
COL_RATE == "on_time_rate"
COL_ABS_DIFF_MEAN == "abs_diff_mean"
COL_DIFF_MEAN == "diff_mean"

\* The characters of a string.
Str(s) == [i \in 1..Len(s) |-> SubSeq(s, i, i)]

ON_TIME == Str("OnTime")
DELAYED == Str("Delayed")
AVG_LABEL == Str("filtered_average")
PLACEHOLDER == Str("-")

DIM_OVERALL == "overall"
DIM_FREIGHT == "by_freight"
DIM_WAREHOUSE == "by_warehouse"
FILTER_ALL == "all_orders"
FILTER_ON_TIME == "only_on_time"
FILTER_DELAYED == "only_delayed"
VIEW_SUMMARY == "month_summary"
VIEW_DETAIL == "month_status_detail"
ALL_OPTION == <<"all">>      \* the option "all" of a select box: no value of a cell

NaN == <<"NaN">>          \* a missing cell: no string
NoSelection == <<"None">>  \* Python's None
EmptyStr == <<>>           \* ""

(***************************************************************************)
(* Exact arithmetic.                                                       *)
(***************************************************************************)
RECURSIVE Gcd(_, _)
Gcd(a, b) == IF b = 0 THEN a ELSE Gcd(b, a % b)

Abs(x) == IF x < 0 THEN -x ELSE x

NaNum == <<0, 0>>
IsNaNum(q) == q[2] = 0

Rat(n, d) ==
  IF d = 0 THEN NaNum
  ELSE LET g == Gcd(Abs(n), Abs(d))
           s == IF d < 0 THEN -1 ELSE 1
       IN  <<(s * n) \div g, (s * d) \div g>>

Num(n) == <<n, 1>>
Zero == Num(0)

RAdd(p, q) == IF IsNaNum(p) \/ IsNaNum(q) THEN NaNum
              ELSE Rat(p[1] * q[2] + q[1] * p[2], p[2] * q[2])
RSub(p, q) == IF IsNaNum(p) \/ IsNaNum(q) THEN NaNum
              ELSE Rat(p[1] * q[2] - q[1] * p[2], p[2] * q[2])
RDivInt(p, k) == IF IsNaNum(p) THEN NaNum ELSE Rat(p[1], p[2] * k)
RLeq(p, q) == p[1] * q[2] <= q[1] * p[2]
RAbs(p) == <<Abs(p[1]), p[2]>>

RECURSIVE Pow10(_)
Pow10(k) == IF k = 0 THEN 1 ELSE 10 * Pow10(k - 1)

\* round(x, k): to the nearest multiple of 10^-k, a tie going to the even one.
Round(p, k) ==
  IF IsNaNum(p) THEN NaNum
  ELSE LET s == Pow10(k)
           a == p[1] * s
           fl == a \div p[2]
           twice == 2 * (a - fl * p[2])
           r == IF twice < p[2] THEN fl
                ELSE IF twice > p[2] THEN fl + 1
                ELSE IF fl % 2 = 0 THEN fl ELSE fl + 1
       IN  Rat(r, s)

RECURSIVE SumSeq(_)
SumSeq(s) == IF s = <<>> THEN Zero ELSE RAdd(Head(s), SumSeq(Tail(s)))

SelectNums(s) == SelectSeq(s, LAMBDA q : ~IsNaNum(q))

\* Series.mean(): missing values are skipped; the mean of nothing is missing.
Mean(s) ==
  LET v == SelectNums(s)
  IN  IF v = <<>> THEN NaNum ELSE RDivInt(SumSeq(v), Len(v))

(***************************************************************************)
(* Strings.                                                                *)
(***************************************************************************)
Alphabet == Str("-0123456789ABCDEFGHIJKLMNOPQRSTUVWXYZ_abcdefghijklmnopqrstuvwxyz")

\* The code point order of the characters in use (0 for any other character).
OrdTable == [c \in {Alphabet[i] : i \in 1..Len(Alphabet)} |->
               CHOOSE i \in 1..Len(Alphabet) : Alphabet[i] = c]
Ord(c) == IF c \in DOMAIN OrdTable THEN OrdTable[c] ELSE 0

\* Python's str < str: the first differing character decides, a proper prefix is less.
RECURSIVE StrLessFrom(_, _, _)
StrLessFrom(a, b, i) ==
  IF i > Len(b) THEN FALSE
  ELSE IF i > Len(a) THEN TRUE
  ELSE IF a[i] = b[i] THEN StrLessFrom(a, b, i + 1)
  ELSE Ord(a[i]) < Ord(b[i])
StrLess(a, b) == StrLessFrom(a, b, 1)

Digits == Str("0123456789")
DigitTable == [c \in {Digits[i] : i \in 1..10} |-> (CHOOSE i \in 1..10 : Digits[i] = c) - 1]
DigitChar(n) == Digits[n + 1]

\* int(s.replace("-", "")) read left to right: a dash is skipped, a digit extends
\* the number, any other character makes int() raise (-1 here); so does a string
\* without any digit.
RECURSIVE ParseDigits(_, _, _, _)
ParseDigits(s, i, acc, seen) ==
  IF i > Len(s) THEN (IF seen THEN acc ELSE -1)
  ELSE IF s[i] = "-" THEN ParseDigits(s, i + 1, acc, seen)
  ELSE IF s[i] \in DOMAIN DigitTable
    THEN ParseDigits(s, i + 1, 10 * acc + DigitTable[s[i]], TRUE)
  ELSE -1

\* month_to_num: int(month_str.replace("-", "")), 0 when that raises (a missing
\* cell is a float and has no .replace).
month_to_num(month_str) ==
  IF month_str = NaN THEN 0
  ELSE LET n == ParseDigits(month_str, 1, 0, FALSE)
       IN  IF n < 0 THEN 0 ELSE n

(***************************************************************************)
(* Sequences and frames.  A frame is a sequence of rows; a row is a        *)
(* function from column names to cell values.                              *)
(***************************************************************************)
Range(s) == {s[i] : i \in 1..Len(s)}

Columns(df) == IF df = <<>> THEN {} ELSE DOMAIN df[1]

Column(df, col) == [i \in 1..Len(df) |-> df[i][col]]

RECURSIVE InsertBy(_, _, _)
InsertBy(Less(_, _), x, s) ==
  IF s = <<>> THEN <<x>>
  ELSE IF Less(x, s[Len(s)]) THEN Append(InsertBy(Less, x, SubSeq(s, 1, Len(s) - 1)), s[Len(s)])
  ELSE Append(s, x)

\* A stable sort: equal elements keep their order.
RECURSIVE SortBy(_, _)
SortBy(Less(_, _), s) ==
  IF s = <<>> THEN <<>>
  ELSE InsertBy(Less, s[Len(s)], SortBy(Less, SubSeq(s, 1, Len(s) - 1)))

\* Lexicographic order of two rows on the text columns cols.
RECURSIVE TextLess(_, _, _)
TextLess(cols, a, b) ==
  IF cols = <<>> THEN FALSE
  ELSE IF a[Head(cols)] = b[Head(cols)] THEN TextLess(Tail(cols), a, b)
  ELSE StrLess(a[Head(cols)], b[Head(cols)])

(***************************************************************************)
(* The sheet and load_data.                                                *)
(***************************************************************************)
NaT == <<0, 0>>

\* pd.to_datetime(errors='coerce'): a cell that is no date becomes NaT.
to_datetime(cell) ==
  IF cell[1] \in 1000..9999 /\ cell[2] \in 1..12 THEN cell ELSE NaT

\* strftime("%Y-%m"); NaT gives a missing value.
strftime(ts) ==
  IF ts = NaT THEN NaN
  ELSE LET y == ts[1]
           m == ts[2]
       IN  << DigitChar(y \div 1000), DigitChar((y \div 100) % 10),
              DigitChar((y \div 10) % 10), DigitChar(y % 10),
              "-", DigitChar(m \div 10), DigitChar(m % 10) >>

\* to_numeric_fillna without the fillna(0): a value that is no number stays missing.
to_numeric_fillna_KeepMissing(cell) == IF IsNaNum(cell) THEN NaNum ELSE cell

\* pd.to_numeric(errors='coerce').fillna(0)
to_numeric_fillna(cell) == IF IsNaNum(cell) THEN Zero ELSE cell

LoadRow(raw) ==
  [raw EXCEPT ![COL_DELIVERY_MONTH] = strftime(to_datetime(raw[COL_DELIVERY_MONTH])),
              ![COL_ABS_DIFF] = to_numeric_fillna(raw[COL_ABS_DIFF]),
              ![COL_DIFF] = to_numeric_fillna(raw[COL_DIFF])]

\* load_data without the dropna on the arrival month.
load_data_KeepNoDate(sheet) == [i \in 1..Len(sheet) |-> LoadRow(sheet[i])]

load_data(sheet) ==
  SelectSeq([i \in 1..Len(sheet) |-> LoadRow(sheet[i])],
            LAMBDA r : r[COL_DELIVERY_MONTH] # NaN)

SheetRow(fba, freight, warehouse, ym, status, diff) ==
  (COL_FBA_NO :> fba) @@ (COL_FREIGHT :> freight) @@ (COL_WAREHOUSE :> warehouse)
    @@ (COL_DELIVERY_MONTH :> ym) @@ (COL_DELAY_STATUS :> status)
    @@ (COL_DIFF :> diff) @@ (COL_ABS_DIFF :> RAbs(diff))

FBA1 == Str("FBA1")
F1 == Str("F1")
F2 == Str("F2")
W1 == Str("W1")
W2 == Str("W2")

\* The rows a sheet is made of: three months (the last after a gap), two
\* forwarders, two warehouses, on-time and delayed orders, a row with an empty
\* FBA number, a row with an empty forwarder, warehouse and status and a deviation
\* that is no number, and a row whose arrival month is no date.
SheetRows ==
  << SheetRow(FBA1, F1, W1, <<2024, 1>>, ON_TIME, Num(2)),
     SheetRow(FBA1, F1, W1, <<2024, 1>>, DELAYED, Num(-3)),
     SheetRow(FBA1, F2, W2, <<2024, 2>>, ON_TIME, Num(2)),
     SheetRow(NaN, F1, W2, <<2024, 2>>, DELAYED, Num(-3)),
     SheetRow(FBA1, F1, W1, <<2024, 4>>, ON_TIME, Num(1)),
     SheetRow(FBA1, NaN, NaN, <<2024, 4>>, NaN, NaNum),
     SheetRow(FBA1, F1, W1, NaT, ON_TIME, Num(2)) >>


\* The sheets with every column: at most n of the rows above, each at most once.
FullSheets(n) ==
  UNION { { [i \in 1..k |-> SheetRows[ix[i]]] :
              ix \in { f \in [1..k -> 1..Len(SheetRows)] :
                         \A i \in 1..(k - 1) : f[i] < f[i + 1] } } :
          k \in 0..n }

WithoutColumn(sheet, col) ==
  [i \in 1..Len(sheet) |-> [c \in (DOMAIN sheet[i]) \ {col} |-> sheet[i][c]]]

\* The sheets: at most MaxRecords rows (the order of the rows of a sheet does not
\* reach any result: every aggregate is taken per group and the groups are
\* sorted), and the short sheets without the forwarder or the warehouse column.
Sheets ==
  FullSheets(MaxRecords)
    \cup { WithoutColumn(sheet, col) :
             sheet \in FullSheets(MaxRecordsNoColumn) \ {<<>>},
             col \in {COL_FREIGHT, COL_WAREHOUSE} }

(***************************************************************************)
(* The trend run: filter, group, aggregate, sort.                          *)
(***************************************************************************)
\* MonthRangeFilter without the rows of the end month.
MonthRangeFilter_EndExcluded(df, start, end) ==
  LET lo == month_to_num(start)
      hi == month_to_num(end)
  IN  SelectSeq(df, LAMBDA r :
        /\ month_to_num(r[COL_DELIVERY_MONTH]) >= lo
        /\ month_to_num(r[COL_DELIVERY_MONTH]) < hi)

\* MonthRangeFilter keeping a row that is inside one of the two bounds.
MonthRangeFilter_Either(df, start, end) ==
  LET lo == month_to_num(start)
      hi == month_to_num(end)
  IN  SelectSeq(df, LAMBDA r :
        \/ month_to_num(r[COL_DELIVERY_MONTH]) >= lo
        \/ month_to_num(r[COL_DELIVERY_MONTH]) <= hi)

\* The frame's rows inside the month range (both ends included).
MonthRangeFilter(df, start, end) ==
  LET lo == month_to_num(start)
      hi == month_to_num(end)
  IN  SelectSeq(df, LAMBDA r :
        /\ month_to_num(r[COL_DELIVERY_MONTH]) >= lo
        /\ month_to_num(r[COL_DELIVERY_MONTH]) <= hi)

\* StatusFilter whose on-time choice keeps every row that is not delayed.
StatusFilter_NotDelayed(df, filter) ==
  IF filter = FILTER_ON_TIME THEN SelectSeq(df, LAMBDA r : r[COL_DELAY_STATUS] # DELAYED)
  ELSE IF filter = FILTER_DELAYED THEN SelectSeq(df, LAMBDA r : r[COL_DELAY_STATUS] = DELAYED)
  ELSE df

StatusFilter(df, filter) ==
  IF filter = FILTER_ON_TIME THEN SelectSeq(df, LAMBDA r : r[COL_DELAY_STATUS] = ON_TIME)
  ELSE IF filter = FILTER_DELAYED THEN SelectSeq(df, LAMBDA r : r[COL_DELAY_STATUS] = DELAYED)
  ELSE df

\* DimensionFilter that leaves the chosen forwarder / warehouse aside.
DimensionFilter_All(df, dimension, selected) == SelectSeq(df, LAMBDA r : TRUE)

DimensionFilter(df, dimension, selected) ==
  IF dimension = DIM_FREIGHT /\ selected # NoSelection
    THEN SelectSeq(df, LAMBDA r : r[COL_FREIGHT] = selected)
  ELSE IF dimension = DIM_WAREHOUSE /\ selected # NoSelection
    THEN SelectSeq(df, LAMBDA r : r[COL_WAREHOUSE] = selected)
  ELSE df

FilterTrend(df, start, end, filter, dimension, selected) ==
  DimensionFilter(StatusFilter(MonthRangeFilter(df, start, end), filter), dimension, selected)

\* group_cols without the status column of the detail view.
group_cols_NoStatus(dimension, view) ==
  <<COL_DELIVERY_MONTH>>
    \o (IF dimension = DIM_FREIGHT THEN <<COL_FREIGHT>>
        ELSE IF dimension = DIM_WAREHOUSE THEN <<COL_WAREHOUSE>> ELSE <<>>)

group_cols(dimension, view) ==
  <<COL_DELIVERY_MONTH>>
    \o (IF dimension = DIM_FREIGHT THEN <<COL_FREIGHT>>
        ELSE IF dimension = DIM_WAREHOUSE THEN <<COL_WAREHOUSE>> ELSE <<>>)
    \o (IF view = VIEW_DETAIL THEN <<COL_DELAY_STATUS>> ELSE <<>>)

KeyOf(r, gcols) == [c \in Range(gcols) |-> r[c]]

\* groupby(gcols): one group per key occurring in the frame; a row with a missing
\* value in a key column belongs to no group.  The keys come out sorted.
GroupKeys(df, gcols) ==
  LET keys == {KeyOf(df[i], gcols) : i \in 1..Len(df)}
      kept == {k \in keys : \A c \in Range(gcols) : k[c] # NaN}
      RECURSIVE AsSeq(_)
      AsSeq(S) == IF S = {} THEN <<>>
                  ELSE LET k == CHOOSE x \in S : TRUE IN <<k>> \o AsSeq(S \ {k})
  IN  SortBy(LAMBDA a, b : TextLess(gcols, a, b), AsSeq(kept))

GroupRows(df, gcols, key) == SelectSeq(df, LAMBDA r : KeyOf(r, gcols) = key)

\* groupby(gcols)[COL_FBA_NO].count(): the cells of the FBA column that are filled.
CountFba(rows) == Len(SelectSeq(rows, LAMBDA r : r[COL_FBA_NO] # NaN))

df_count(df, gcols) ==
  LET keys == GroupKeys(df, gcols)
  IN  [i \in 1..Len(keys) |->
         keys[i] @@ (COL_COUNT :> Num(CountFba(GroupRows(df, gcols, keys[i]))))]

\* RateOf as a percentage.
RateOf_Percent(rows) ==
  LET on_time == Len(SelectSeq(rows, LAMBDA r : r[COL_DELAY_STATUS] = ON_TIME))
      total == Len(rows)
  IN  Rat(100 * on_time, IF total = 0 THEN 1 ELSE total)

\* RateOf with every order that is not delayed taken as on time.
RateOf_NotDelayed(rows) ==
  LET on_time == Len(SelectSeq(rows, LAMBDA r : r[COL_DELAY_STATUS] # DELAYED))
      total == Len(rows)
  IN  Rat(on_time, IF total = 0 THEN 1 ELSE total)

\* on-time orders / orders of the group (a total of 0 is replaced by 1).
RateOf(rows) ==
  LET on_time == Len(SelectSeq(rows, LAMBDA r : r[COL_DELAY_STATUS] = ON_TIME))
      total == Len(rows)
  IN  Rat(on_time, IF total = 0 THEN 1 ELSE total)

\* df_rate with the rate of the whole period in every group of the period.
df_rate_PerPeriod(df, gcols) ==
  LET keys == GroupKeys(df, gcols)
  IN  [i \in 1..Len(keys) |->
         keys[i] @@ (COL_RATE :> RateOf(GroupRows(df, <<COL_DELIVERY_MONTH>>,
                                                  KeyOf(keys[i], <<COL_DELIVERY_MONTH>>))))]

df_rate(df, gcols) ==
  LET keys == GroupKeys(df, gcols)
  IN  [i \in 1..Len(keys) |->
         keys[i] @@ (COL_RATE :> RateOf(GroupRows(df, gcols, keys[i])))]

df_diff(df, gcols) ==
  LET keys == GroupKeys(df, gcols)
  IN  [i \in 1..Len(keys) |->
         LET rows == GroupRows(df, gcols, keys[i])
         IN  keys[i] @@ (COL_ABS_DIFF_MEAN :> Mean(Column(rows, COL_ABS_DIFF)))
                     @@ (COL_DIFF_MEAN :> Mean(Column(rows, COL_DIFF)))]

\* pd.merge(left, right, on=gcols, how=...): the keys of both frames are the
\* groups of one frame, so every left row has exactly one partner.
Merge(left, right, gcols) ==
  [i \in 1..Len(left) |->
     LET partner == CHOOSE j \in 1..Len(right) : KeyOf(right[j], gcols) = KeyOf(left[i], gcols)
     IN  left[i] @@ right[partner]]

\* SortLess with the later month first.
SortLess_LatestFirst(gcols, a, b) ==
  LET na == month_to_num(a[COL_DELIVERY_MONTH])
      nb == month_to_num(b[COL_DELIVERY_MONTH])
  IN  IF na # nb THEN na > nb ELSE TextLess(Tail(gcols), a, b)

\* sort_values(["month number"] + the other key columns)
SortLess(gcols, a, b) ==
  LET na == month_to_num(a[COL_DELIVERY_MONTH])
      nb == month_to_num(b[COL_DELIVERY_MONTH])
  IN  IF na # nb THEN na < nb ELSE TextLess(Tail(gcols), a, b)

SortTrend(df, gcols) == SortBy(LAMBDA a, b : SortLess(gcols, a, b), df)

Aggregate(filtered, gcols) ==
  IF Len(filtered) > 0
    THEN SortTrend(Merge(Merge(df_count(filtered, gcols), df_rate(filtered, gcols), gcols),
                         df_diff(filtered, gcols), gcols), gcols)
    ELSE <<>>

(***************************************************************************)
(* The summary row and the period-over-period deltas.                      *)
(***************************************************************************)
avg_cols == <<COL_COUNT, COL_RATE, COL_ABS_DIFF_MEAN, COL_DIFF_MEAN>>

AvgDigits(col) == IF col = COL_RATE THEN 4 ELSE 2

\* AvgValue with the total in place of the mean.
AvgValue_Total(trend, col) ==
  LET valid_vals == SelectNums(Column(trend, col))
  IN  IF Len(valid_vals) > 0 THEN Round(SumSeq(valid_vals), AvgDigits(col)) ELSE Zero

\* round(valid_vals.mean(), digits), 0 when the column holds no value.
AvgValue(trend, col) ==
  LET valid_vals == SelectNums(Column(trend, col))
  IN  IF Len(valid_vals) > 0 THEN Round(Mean(valid_vals), AvgDigits(col)) ELSE Zero

avg_row(trend) ==
  [c \in Columns(trend) |->
     IF c \in Range(avg_cols) THEN AvgValue(trend, c)
     ELSE IF c = COL_DELIVERY_MONTH THEN AVG_LABEL
     ELSE PLACEHOLDER]

\* pd.concat([summary row, trend_data])
WithAvgRow(trend) == <<avg_row(trend)>> \o trend

DeltaCol(base_col) == base_col \o "_delta"

\* diff_group_cols without any column: one diff over the whole table.
diff_group_cols_None(gcols) == SelectSeq(gcols, LAMBDA c : FALSE)

diff_group_cols(gcols) == SelectSeq(gcols, LAMBDA c : c # COL_DELIVERY_MONTH)

\* PrevInSeries with the first row of the series in place of the nearest one.
PrevInSeries_First(df_data, cols, i) ==
  LET same == {j \in 1..(i - 1) : KeyOf(df_data[j], cols) = KeyOf(df_data[i], cols)}
  IN  IF same = {} THEN 0 ELSE CHOOSE j \in same : \A k \in same : j <= k

\* The row before position i with the same key on cols (0 when there is none);
\* with no cols it is the row just before.
PrevInSeries(df_data, cols, i) ==
  LET same == {j \in 1..(i - 1) : KeyOf(df_data[j], cols) = KeyOf(df_data[i], cols)}
  IN  IF same = {} THEN 0 ELSE CHOOSE j \in same : \A k \in same : k <= j

\* DiffFilled with the first row of a series compared with 0.
DiffFilled_FromZero(df_data, base_col, cols) ==
  [i \in 1..Len(df_data) |->
     LET p == PrevInSeries(df_data, cols, i)
         d == IF p = 0 THEN df_data[i][base_col]
              ELSE RSub(df_data[i][base_col], df_data[p][base_col])
     IN  IF IsNaNum(d) THEN Zero ELSE d]

\* DiffFilled without the fillna(0): the first row of a series has no delta.
DiffFilled_KeepMissing(df_data, base_col, cols) ==
  [i \in 1..Len(df_data) |->
     LET p == PrevInSeries(df_data, cols, i)
     IN  IF p = 0 \/ (\E c \in Range(cols) : df_data[i][c] = NaN) THEN NaNum
         ELSE RSub(df_data[i][base_col], df_data[p][base_col])]

\* Series.diff() inside each group of cols, then fillna(0).
DiffFilled(df_data, base_col, cols) ==
  [i \in 1..Len(df_data) |->
     LET p == PrevInSeries(df_data, cols, i)
         d == IF p = 0 \/ (\E c \in Range(cols) : df_data[i][c] = NaN) THEN NaNum
              ELSE RSub(df_data[i][base_col], df_data[p][base_col])
     IN  IF IsNaNum(d) THEN Zero ELSE d]

\* pd.concat of frames with different columns: a cell of a column the row's
\* frame does not have is missing.
PadRow(r, cols) == [c \in cols |-> IF c \in DOMAIN r THEN r[c] ELSE NaNum]

\* calculate_monthly_diff with the first row put back after the data rows.
calculate_monthly_diff_AvgLast(df, base_col, gcols) ==
  LET df_data == IF Len(df) > 1 THEN SubSeq(df, 2, Len(df)) ELSE df
  IN  IF Len(df_data) = 0 \/ base_col \notin Columns(df_data) THEN df
      ELSE LET sorted == SortTrend(df_data, gcols)
               deltas == DiffFilled(sorted, base_col, diff_group_cols(gcols))
               with_delta == [i \in 1..Len(sorted) |->
                                (DeltaCol(base_col) :> deltas[i]) @@ sorted[i]]
           IN  IF Len(df) > 1
                 THEN with_delta \o <<PadRow(df[1], Columns(with_delta))>>
                 ELSE with_delta

calculate_monthly_diff(df, base_col, gcols) ==
  LET df_data == IF Len(df) > 1 THEN SubSeq(df, 2, Len(df)) ELSE df
  IN  IF Len(df_data) = 0 \/ base_col \notin Columns(df_data) THEN df
      ELSE LET sorted == SortTrend(df_data, gcols)
               deltas == DiffFilled(sorted, base_col, diff_group_cols(gcols))
               with_delta == [i \in 1..Len(sorted) |->
                                (DeltaCol(base_col) :> deltas[i]) @@ sorted[i]]
           IN  IF Len(df) > 1
                 THEN <<PadRow(df[1], Columns(with_delta))>> \o with_delta
                 ELSE with_delta

RECURSIVE DiffAll(_, _, _)
DiffAll(df, cols, gcols) ==
  IF cols = <<>> THEN df
  ELSE DiffAll(IF Head(cols) \in Columns(df)
                 THEN calculate_monthly_diff(df, Head(cols), gcols) ELSE df,
               Tail(cols), gcols)

WithAvgAndDiff(trend, gcols) ==
  IF Len(trend) > 0 THEN DiffAll(WithAvgRow(trend), avg_cols, gcols) ELSE <<>>

(***************************************************************************)
(* The widgets' options.                                                   *)
(***************************************************************************)
SortedUnique(df, col) ==
  LET vals == {df[i][col] : i \in 1..Len(df)} \ {NaN}
      RECURSIVE AsSeq(_)
      AsSeq(S) == IF S = {} THEN <<>>
                  ELSE LET k == CHOOSE x \in S : TRUE IN <<k>> \o AsSeq(S \ {k})
  IN  SortBy(StrLess, AsSeq(vals))

all_months_trend(df) == SortedUnique(df, COL_DELIVERY_MONTH)

default_start(months) ==
  IF Len(months) >= 3 THEN months[Len(months) - 2] ELSE months[1]

default_end(months) == months[Len(months)]

NOTICE_NO_VALID_DATA == "no_valid_data_for_trend"
NOTICE_INVALID_RANGE == "choose_a_valid_month_range"
NOTICE_FILTERED_EMPTY == "no_data_after_filter"
NOTICE_NO_TABLE == "no_data"
NOTICE_NO_FREIGHT_COLUMN == "missing_column_freight"
NOTICE_NO_WAREHOUSE_COLUMN == "missing_column_warehouse"

\* The column check of the dimension radio: without its column the run goes on
\* with the overall trend.
ValidDimension(radio, df) ==
  IF radio = DIM_FREIGHT /\ COL_FREIGHT \notin Columns(df) THEN DIM_OVERALL
  ELSE IF radio = DIM_WAREHOUSE /\ COL_WAREHOUSE \notin Columns(df) THEN DIM_OVERALL
  ELSE radio

\* DimensionErrors without any message.
DimensionErrors_Silent(radio, df) == {n \in {NOTICE_NO_TABLE} : FALSE}

\* ... and the st.error it writes.
DimensionErrors(radio, df) ==
  IF radio = DIM_FREIGHT /\ COL_FREIGHT \notin Columns(df) THEN {NOTICE_NO_FREIGHT_COLUMN}
  ELSE IF radio = DIM_WAREHOUSE /\ COL_WAREHOUSE \notin Columns(df)
    THEN {NOTICE_NO_WAREHOUSE_COLUMN}
  ELSE {}

(***************************************************************************)
(* The script: one run per widget change.                                  *)
(***************************************************************************)
\* The run reaches the filter only with a sheet that has rows and with both
\* months chosen.
RunsTrend(df, start, end) == Len(df) > 0 /\ start # EmptyStr /\ end # EmptyStr

RunFilter(df, dimension, start, end, filter, selected) ==
  IF RunsTrend(df, start, end)
    THEN FilterTrend(df, start, end, filter, dimension, selected)
    ELSE <<>>

RunAggregate(df, start, end, filtered, gcols) ==
  IF RunsTrend(df, start, end) THEN Aggregate(filtered, gcols) ELSE <<>>

\* RunTable with a summary row of zeros for a sheet without rows.
RunTable_ZeroSummary(df, start, end, trend, gcols) ==
  IF RunsTrend(df, start, end) THEN WithAvgAndDiff(trend, gcols)
  ELSE << [c \in {COL_DELIVERY_MONTH} \cup Range(avg_cols) |->
             IF c = COL_DELIVERY_MONTH THEN AVG_LABEL ELSE Zero] >>

RunTable(df, start, end, trend, gcols) ==
  IF RunsTrend(df, start, end) THEN WithAvgAndDiff(trend, gcols) ELSE <<>>

\* Notices that leaves the table column blank when the filters keep nothing.
Notices_Blank(df, start, end, filtered, trend) ==
  IF Len(df) = 0 THEN {NOTICE_NO_VALID_DATA}
  ELSE IF start = EmptyStr \/ end = EmptyStr THEN {NOTICE_INVALID_RANGE}
  ELSE {}

\* What the run writes in the table column in place of a table.
Notices(df, start, end, filtered, trend) ==
  IF Len(df) = 0 THEN {NOTICE_NO_VALID_DATA}
  ELSE IF start = EmptyStr \/ end = EmptyStr THEN {NOTICE_INVALID_RANGE}
  ELSE (IF Len(filtered) = 0 THEN {NOTICE_FILTERED_EMPTY} ELSE {})
         \cup (IF Len(trend) = 0 THEN {NOTICE_NO_TABLE} ELSE {})

\* The table of the trend rows with the summary row, and the download link
\* under it, are written only for a trend table with rows.
ShowsTable(df, start, end, trend) == RunsTrend(df, start, end) /\ Len(trend) > 0

ShowsDownloadLink(df, start, end, trend) == RunsTrend(df, start, end) /\ Len(trend) > 0

\* The line chart: a trend table with rows, both months and the summary view.
ShowsChart(df, start, end, trend, view) ==
  /\ Len(df) > 0
  /\ Len(trend) > 0 /\ start # EmptyStr /\ end # EmptyStr
  /\ view = VIEW_SUMMARY

NOTICE_NO_CHART == "choose_valid_filters_and_make_sure_there_is_data"
NOTICE_CHART_NEEDS_SUMMARY == "switch_to_summary_view_for_the_chart"

\* What the run writes in the chart column in place of a chart.
ChartNotices(df, start, end, trend, view) ==
  IF Len(df) = 0 THEN {}
  ELSE IF ~(Len(trend) > 0 /\ start # EmptyStr /\ end # EmptyStr) THEN {NOTICE_NO_CHART}
  ELSE IF view # VIEW_SUMMARY THEN {NOTICE_CHART_NEEDS_SUMMARY}
  ELSE {}

\* Rerun that keeps the trend table of the run before when there is one.
Rerun_KeepsLastTable(dimension, start, end, filter, view, selected) ==
  /\ df_trend_filtered' = RunFilter(df_red, dimension, start, end, filter, selected)
  /\ trend_data' = IF Len(trend_data) > 0 THEN trend_data
                   ELSE RunAggregate(df_red, start, end, df_trend_filtered',
                                     group_cols(dimension, view))
  /\ df_with_avg' = IF Len(df_with_avg) > 0 THEN df_with_avg
                    ELSE RunTable(df_red, start, end, trend_data', group_cols(dimension, view))
  /\ notices' = DimensionErrors(trend_dimension', df_red)
                   \cup Notices(df_red, start, end, df_trend_filtered', trend_data')
  /\ UNCHANGED <<df_sheet, df_red, session_vars, month_vars, call_vars, source_vars>>

\* Rerun that filters the loaded frame itself instead of a copy.
Rerun_FiltersInPlace(dimension, start, end, filter, view, selected) ==
  /\ df_trend_filtered' = RunFilter(df_red, dimension, start, end, filter, selected)
  /\ trend_data' = RunAggregate(df_red, start, end, df_trend_filtered',
                                group_cols(dimension, view))
  /\ df_with_avg' = RunTable(df_red, start, end, trend_data', group_cols(dimension, view))
  /\ notices' = DimensionErrors(trend_dimension', df_red)
                   \cup Notices(df_red, start, end, df_trend_filtered', trend_data')
  /\ df_red' = df_trend_filtered'
  /\ UNCHANGED <<df_sheet, session_vars, month_vars, call_vars, source_vars>>

Rerun(dimension, start, end, filter, view, selected) ==
  /\ df_trend_filtered' = RunFilter(df_red, dimension, start, end, filter, selected)
  /\ trend_data' = RunAggregate(df_red, start, end, df_trend_filtered',
                                group_cols(dimension, view))
  /\ df_with_avg' = RunTable(df_red, start, end, trend_data', group_cols(dimension, view))
  /\ notices' = DimensionErrors(trend_dimension', df_red)
                   \cup Notices(df_red, start, end, df_trend_filtered', trend_data')
  /\ UNCHANGED <<df_sheet, df_red, session_vars, month_vars, call_vars, source_vars>>

\* The first run of the trend section on a sheet: the sheet is loaded and every
\* widget shows its default.
InitSheet(sheet) ==
  /\ df_sheet = sheet
  /\ df_red = load_data(sheet)
  /\ trend_dimension = DIM_OVERALL
  /\ analysis_dimension = DIM_OVERALL
  /\ delay_filter = FILTER_ALL
  /\ view_mode = VIEW_SUMMARY
  /\ selected_dimension = NoSelection
  /\ start_month = IF all_months_trend(df_red) # <<>>
                     THEN default_start(all_months_trend(df_red))
                     ELSE EmptyStr
  /\ end_month = IF all_months_trend(df_red) # <<>>
                   THEN default_end(all_months_trend(df_red))
                   ELSE EmptyStr
  /\ df_trend_filtered = RunFilter(df_red, DIM_OVERALL, start_month, end_month,
                                   FILTER_ALL, NoSelection)
  /\ trend_data = RunAggregate(df_red, start_month, end_month, df_trend_filtered,
                               group_cols(DIM_OVERALL, VIEW_SUMMARY))
  /\ df_with_avg = RunTable(df_red, start_month, end_month, trend_data,
                            group_cols(DIM_OVERALL, VIEW_SUMMARY))
  /\ notices = Notices(df_red, start_month, end_month, df_trend_filtered, trend_data)

\* The parts of the script a specification leaves aside.
NoSessions == sessions = <<>>

NoCurrentMonth == selected_month = EmptyStr /\ core_cards = <<>> /\ histogram = <<>>

NoCall == current_month = EmptyStr /\ prev_month = EmptyStr

NoSourceFilter ==
  /\ selected_month_filter = ALL_OPTION /\ selected_warehouse_filter = ALL_OPTION
  /\ selected_freight_filter = ALL_OPTION /\ selected_status_filter = ALL_OPTION
  /\ df_filtered = <<>>

Init ==
  /\ \E sheet \in Sheets : InitSheet(sheet)
  /\ NoSessions /\ NoCurrentMonth /\ NoCall /\ NoSourceFilter

ChooseDimension ==
  /\ Len(df_red) > 0
  /\ \E d \in {DIM_OVERALL, DIM_FREIGHT, DIM_WAREHOUSE} :
       /\ d # trend_dimension
       /\ trend_dimension' = d
       /\ analysis_dimension' = ValidDimension(d, df_red)
       /\ selected_dimension' = NoSelection
       /\ UNCHANGED <<start_month, end_month, delay_filter, view_mode>>
       /\ Rerun(analysis_dimension', start_month, end_month, delay_filter, view_mode,
                NoSelection)

ChooseStartMonth ==
  /\ Len(df_red) > 0
  /\ \E m \in Range(all_months_trend(df_red)) :
       /\ m # start_month
       /\ start_month' = m
       /\ UNCHANGED <<trend_dimension, analysis_dimension, end_month, delay_filter, view_mode, selected_dimension>>
       /\ Rerun(analysis_dimension, m, end_month, delay_filter, view_mode, selected_dimension)

ChooseEndMonth ==
  /\ Len(df_red) > 0
  /\ \E m \in Range(all_months_trend(df_red)) :
       /\ m # end_month
       /\ end_month' = m
       /\ UNCHANGED <<trend_dimension, analysis_dimension, start_month, delay_filter, view_mode, selected_dimension>>
       /\ Rerun(analysis_dimension, start_month, m, delay_filter, view_mode, selected_dimension)

ChooseDelayFilter ==
  /\ Len(df_red) > 0
  /\ \E f \in {FILTER_ALL, FILTER_ON_TIME, FILTER_DELAYED} :
       /\ f # delay_filter
       /\ delay_filter' = f
       /\ UNCHANGED <<trend_dimension, analysis_dimension, start_month, end_month, view_mode, selected_dimension>>
       /\ Rerun(analysis_dimension, start_month, end_month, f, view_mode, selected_dimension)

ChooseViewMode ==
  /\ Len(df_red) > 0
  /\ \E v \in {VIEW_SUMMARY, VIEW_DETAIL} :
       /\ v # view_mode
       /\ view_mode' = v
       /\ UNCHANGED <<trend_dimension, analysis_dimension, start_month, end_month, delay_filter, selected_dimension>>
       /\ Rerun(analysis_dimension, start_month, end_month, delay_filter, v, selected_dimension)

\* The forwarder / warehouse select box: "all" or one value of the column.
ChooseSelectedDimension ==
  /\ Len(df_red) > 0
  /\ analysis_dimension \in {DIM_FREIGHT, DIM_WAREHOUSE}
  /\ \E s \in {NoSelection} \cup Range(SortedUnique(df_red,
                 IF analysis_dimension = DIM_FREIGHT THEN COL_FREIGHT ELSE COL_WAREHOUSE)) :
       /\ s # selected_dimension
       /\ selected_dimension' = s
       /\ UNCHANGED <<trend_dimension, analysis_dimension, start_month, end_month, delay_filter, view_mode>>
       /\ Rerun(analysis_dimension, start_month, end_month, delay_filter, view_mode, s)

Next ==
  \/ ChooseDimension
  \/ ChooseStartMonth
  \/ ChooseEndMonth
  \/ ChooseDelayFilter
  \/ ChooseViewMode
  \/ ChooseSelectedDimension

Spec == Init /\ [][Next]_vars

(***************************************************************************)
(* Concurrent runs.  Streamlit runs the script once per browser session    *)
(* and widget change, each run in a thread and a namespace of its own; the *)
(* cached load_data hands every run a copy of the loaded sheet.  A run's   *)
(* aggregation goes through its frames one statement after the other, and  *)
(* the statements of two runs interleave.                                  *)
(***************************************************************************)
SessionIds == {"A", "B"}

ConcurrentSheets == FullSheets(MaxRecordsConcurrent)

\* A run that has read its widgets and not yet filtered.
StartSession(filter, view) ==
  [pc |-> "filter", delay_filter |-> filter, view_mode |-> view,
   filtered |-> <<>>, count |-> <<>>, rate |-> <<>>, diff |-> <<>>, trend |-> <<>>]

SessionGroupCols(s) == group_cols(DIM_OVERALL, sessions[s].view_mode)

\* SessionFilter that writes the filtered frame where every run reads it.
SessionFilter_Shared(s) ==
  /\ sessions[s].pc = "filter"
  /\ LET f == RunFilter(df_red, DIM_OVERALL, start_month, end_month,
                        sessions[s].delay_filter, NoSelection)
     IN  sessions' = [t \in SessionIds |->
                        IF t = s
                          THEN [sessions[t] EXCEPT !.filtered = f,
                                  !.pc = IF Len(f) > 0 THEN "count" ELSE "done"]
                          ELSE [sessions[t] EXCEPT !.filtered = f]]
  /\ UNCHANGED <<sheet_vars, trend_vars, month_vars, call_vars, source_vars>>

\* The filters of the run; without a row left the aggregation is skipped.
SessionFilter(s) ==
  /\ sessions[s].pc = "filter"
  /\ LET f == RunFilter(df_red, DIM_OVERALL, start_month, end_month,
                        sessions[s].delay_filter, NoSelection)
     IN  sessions' = [sessions EXCEPT ![s].filtered = f,
                        ![s].pc = IF Len(f) > 0 THEN "count" ELSE "done"]
  /\ UNCHANGED <<sheet_vars, trend_vars, month_vars, call_vars, source_vars>>

SessionCount(s) ==
  /\ sessions[s].pc = "count"
  /\ sessions' = [sessions EXCEPT
                    ![s].count = df_count(sessions[s].filtered, SessionGroupCols(s)),
                    ![s].pc = "rate"]
  /\ UNCHANGED <<sheet_vars, trend_vars, month_vars, call_vars, source_vars>>

SessionRate(s) ==
  /\ sessions[s].pc = "rate"
  /\ sessions' = [sessions EXCEPT
                    ![s].rate = df_rate(sessions[s].filtered, SessionGroupCols(s)),
                    ![s].pc = "diff"]
  /\ UNCHANGED <<sheet_vars, trend_vars, month_vars, call_vars, source_vars>>

SessionDiff(s) ==
  /\ sessions[s].pc = "diff"
  /\ sessions' = [sessions EXCEPT
                    ![s].diff = df_diff(sessions[s].filtered, SessionGroupCols(s)),
                    ![s].pc = "merge"]
  /\ UNCHANGED <<sheet_vars, trend_vars, month_vars, call_vars, source_vars>>

\* The two merges and the sort.
SessionMerge(s) ==
  /\ sessions[s].pc = "merge"
  /\ sessions' = [sessions EXCEPT
                    ![s].trend =
                       SortTrend(Merge(Merge(sessions[s].count, sessions[s].rate,
                                             SessionGroupCols(s)),
                                       sessions[s].diff, SessionGroupCols(s)),
                                 SessionGroupCols(s)),
                    ![s].pc = "done"]
  /\ UNCHANGED <<sheet_vars, trend_vars, month_vars, call_vars, source_vars>>

\* Two runs on one loaded sheet, each with its own status filter and view.
InitConcurrent ==
  /\ \E sheet \in ConcurrentSheets : InitSheet(sheet)
  /\ \E fa, fb \in {FILTER_ALL, FILTER_ON_TIME, FILTER_DELAYED} :
       \E va, vb \in {VIEW_SUMMARY, VIEW_DETAIL} :
         sessions = [t \in SessionIds |->
                       IF t = "A" THEN StartSession(fa, va) ELSE StartSession(fb, vb)]
  /\ NoCurrentMonth /\ NoCall /\ NoSourceFilter

NextConcurrent ==
  \E s \in SessionIds :
    \/ SessionFilter(s)
    \/ SessionCount(s)
    \/ SessionRate(s)
    \/ SessionDiff(s)
    \/ SessionMerge(s)

SpecConcurrent == InitConcurrent /\ [][NextConcurrent]_vars

(***************************************************************************)
(* get_prev_month.                                                         *)
(***************************************************************************)
IsDigit(c) == c \in DOMAIN DigitTable

\* The month of strptime's "%m": two digits 01..12 or one digit 1..9 (the pattern
\* 1[0-2]|0[1-9]|[1-9]); 0 when the text after the dash is no such month, or has
\* more after it.
ParseMonth(s) ==
  IF Len(s) = 7
    THEN (IF s[6] = "1" /\ s[7] \in {"0", "1", "2"} THEN 10 + DigitTable[s[7]]
          ELSE IF s[6] = "0" /\ IsDigit(s[7]) /\ s[7] # "0" THEN DigitTable[s[7]]
          ELSE 0)
    ELSE (IF IsDigit(s[6]) /\ s[6] # "0" THEN DigitTable[s[6]] ELSE 0)

\* datetime.strptime(s, "%Y-%m"): four digits, a dash, the month; NaT stands for
\* the exception it raises otherwise (a value that is no string, a text of another
\* shape, the year 0).
strptime(s) ==
  IF s = NaN THEN NaT
  ELSE IF Len(s) \notin {6, 7} THEN NaT
  ELSE IF (\E i \in 1..4 : ~IsDigit(s[i])) \/ s[5] # "-" THEN NaT
  ELSE LET y == 1000 * DigitTable[s[1]] + 100 * DigitTable[s[2]]
                  + 10 * DigitTable[s[3]] + DigitTable[s[4]]
           m == ParseMonth(s)
       IN  IF m = 0 \/ y < 1 THEN NaT ELSE <<y, m>>

\* current.replace(day=1) - Timedelta(days=1), as year and month; before the
\* year 1 the subtraction raises (NaT).
PrevOf(ts) ==
  IF ts[2] = 1 THEN (IF ts[1] = 1 THEN NaT ELSE <<ts[1] - 1, 12>>)
  ELSE <<ts[1], ts[2] - 1>>

RECURSIVE Decimal(_)
Decimal(n) == IF n < 10 THEN <<DigitChar(n)>> ELSE Decimal(n \div 10) \o <<DigitChar(n % 10)>>

\* strftime("%Y-%m") of the C library: a year below 1000 comes with or without
\* leading zeros, depending on the build.
strftime_builds(ts) ==
  {strftime(ts)}
    \cup (IF ts[1] < 1000
            THEN {Decimal(ts[1]) \o <<"-", DigitChar(ts[2] \div 10), DigitChar(ts[2] % 10)>>}
            ELSE {})

\* The values a call can return: the bare except turns every exception into "".
get_prev_month(month) ==
  LET current == strptime(month)
  IN  IF current = NaT THEN {EmptyStr}
      ELSE IF PrevOf(current) = NaT THEN {EmptyStr}
      ELSE strftime_builds(PrevOf(current))

(***************************************************************************)
(* The current-month section: the month select box and the core cards.     *)
(***************************************************************************)
Reverse(s) == [i \in 1..Len(s) |-> s[Len(s) + 1 - i]]

\* The months of the select box, the latest first.
month_options(df) == Reverse(SortedUnique(df, COL_DELIVERY_MONTH))

df_current(df, selected) == SelectSeq(df, LAMBDA r : r[COL_DELIVERY_MONTH] = selected)

\* df_prev with the rows of the nearest month of the sheet up to prev.
df_prev_NearestInData(df, prev, options) ==
  LET before == {m \in Range(options) : m = prev \/ StrLess(m, prev)}
  IN  IF prev = EmptyStr \/ before = {} THEN <<>>
      ELSE LET last == CHOOSE m \in before : \A k \in before : k = m \/ StrLess(k, m)
           IN  SelectSeq(df, LAMBDA r : r[COL_DELIVERY_MONTH] = last)

df_prev(df, prev, options) ==
  IF prev # EmptyStr /\ prev \in Range(options)
    THEN SelectSeq(df, LAMBDA r : r[COL_DELIVERY_MONTH] = prev)
    ELSE <<>>

ARROW_UP == "up"
ARROW_DOWN == "down"
ARROW_NONE == "none"

change_arrow(change) ==
  IF change[1] > 0 THEN ARROW_UP ELSE IF change[1] < 0 THEN ARROW_DOWN ELSE ARROW_NONE

change_color(change) ==
  IF change[1] > 0 THEN "red" ELSE IF change[1] < 0 THEN "green" ELSE "gray"

Card(now, before) ==
  [current |-> now, prev |-> before, change |-> RSub(now, before),
   arrow |-> change_arrow(RSub(now, before)), color |-> change_color(RSub(now, before))]

CountStatus(rows, status) == Len(SelectSeq(rows, LAMBDA r : r[COL_DELAY_STATUS] = status))

\* The mean of a column of the month's rows; 0 for the previous month without rows.
MonthMean(rows, col) == IF Len(rows) > 0 THEN Mean(Column(rows, col)) ELSE Zero

CoreCards(cur, prv) ==
  [fba |-> Card(Num(Len(cur)), Num(Len(prv))),
   on_time |-> Card(Num(CountStatus(cur, ON_TIME)), Num(CountStatus(prv, ON_TIME))),
   delay |-> Card(Num(CountStatus(cur, DELAYED)), Num(CountStatus(prv, DELAYED))),
   abs_avg |-> Card(MonthMean(cur, COL_ABS_DIFF), MonthMean(prv, COL_ABS_DIFF)),
   diff_avg |-> Card(MonthMean(cur, COL_DIFF), MonthMean(prv, COL_DIFF))]

(***************************************************************************)
(* The text histogram of the deviations of the month.                      *)
(***************************************************************************)
max_display_length == 20

\* dropna().round().astype(int): the deviations as whole days.
diff_data(rows) ==
  LET v == SelectNums(Column(rows, COL_DIFF))
  IN  [i \in 1..Len(v) |-> Round(v[i], 0)[1]]

\* value_counts(): the days that occur, each with the number of its records.
value_counts(days) ==
  [d \in Range(days) |-> Cardinality({i \in 1..Len(days) : days[i] = d})]

\* sort_index(): the days in ascending (or descending) order.
sort_index(counts, ascending) ==
  LET RECURSIVE AsSeq(_)
      AsSeq(S) == IF S = {} THEN <<>>
                  ELSE LET k == CHOOSE x \in S : TRUE IN <<k>> \o AsSeq(S \ {k})
  IN  SortBy(LAMBDA x, y : IF ascending THEN x < y ELSE x > y, AsSeq(DOMAIN counts))

early_counts(days) == value_counts(SelectSeq(days, LAMBDA d : d >= 0))

delay_counts(days) == value_counts(SelectSeq(days, LAMBDA d : d < 0))

\* The largest count of a bucket of either list, 0 without any bucket.
max_count(days) ==
  LET all == value_counts(days)
  IN  IF DOMAIN all = {} THEN 0
      ELSE CHOOSE c \in {all[d] : d \in DOMAIN all} : \A d \in DOMAIN all : all[d] <= c

\* display_length rounded up and one character longer.
display_length_RoundedUp(count, most) ==
  IF most > 0 THEN (count * max_display_length + most - 1) \div most + 1 ELSE 0

\* int((count / max_count) * max_display_length); for the counts of a sheet of the
\* model the float product is the exact one.
display_length(count, most) ==
  IF most > 0 THEN (count * max_display_length) \div most ELSE 0

Bars(counts, order, most) ==
  [i \in 1..Len(order) |->
     [day |-> order[i], count |-> counts[order[i]],
      length |-> display_length(counts[order[i]], most)]]

\* The two lists of bars: the early and on-time days from the largest down, the
\* delayed days from the most delayed up.
Histogram(rows) ==
  LET days == diff_data(rows)
  IN  [early |-> Bars(early_counts(days), sort_index(early_counts(days), FALSE),
                      max_count(days)),
       delay |-> Bars(delay_counts(days), sort_index(delay_counts(days), TRUE),
                      max_count(days))]

(***************************************************************************)
(* The script's current-month section: one run per change of the month.    *)
(***************************************************************************)
\* The rows of a sheet of the current-month section: a December, the January after
\* it and a March after a gap; deviations of whole and of half days.
MonthSheetRows ==
  << SheetRow(FBA1, F1, W1, <<2024, 1>>, ON_TIME, Num(2)),
     SheetRow(FBA1, F1, W1, <<2024, 1>>, ON_TIME, Rat(3, 2)),
     SheetRow(FBA1, F2, W1, <<2024, 1>>, ON_TIME, Rat(5, 2)),
     SheetRow(FBA1, F1, W2, <<2024, 1>>, DELAYED, Num(-3)),
     SheetRow(FBA1, F2, W2, <<2024, 1>>, DELAYED, Rat(-1, 2)),
     SheetRow(FBA1, F1, W1, <<2023, 12>>, ON_TIME, Rat(1, 2)),
     SheetRow(FBA1, F1, W1, <<2023, 12>>, DELAYED, Rat(-3, 2)),
     SheetRow(FBA1, F1, W1, <<2024, 3>>, ON_TIME, Num(2)),
     SheetRow(FBA1, F1, W1, <<2024, 3>>, NaN, NaNum) >>

MonthSheets ==
  UNION { { [i \in 1..k |-> MonthSheetRows[ix[i]]] :
              ix \in { f \in [1..k -> 1..Len(MonthSheetRows)] :
                         \A i \in 1..(k - 1) : f[i] < f[i + 1] } } :
          k \in 0..MaxRecordsMonth }

\* The run of the section with the month m of the select box.
MonthRun(m) ==
  /\ selected_month' = m
  /\ \E prev \in get_prev_month(m) :
       core_cards' = CoreCards(df_current(df_red, m),
                               df_prev(df_red, prev, month_options(df_red)))
  /\ histogram' = Histogram(df_current(df_red, m))
  /\ UNCHANGED <<sheet_vars, trend_vars, session_vars, call_vars, source_vars>>

\* The first run: the select box shows the latest month; without any month the
\* section writes a notice only.
InitMonth ==
  /\ \E sheet \in MonthSheets : InitSheet(sheet)
  /\ IF month_options(df_red) # <<>>
       THEN /\ selected_month = month_options(df_red)[1]
            /\ \E prev \in get_prev_month(selected_month) :
                 core_cards = CoreCards(df_current(df_red, selected_month),
                                        df_prev(df_red, prev, month_options(df_red)))
            /\ histogram = Histogram(df_current(df_red, selected_month))
       ELSE NoCurrentMonth
  /\ NoSessions /\ NoCall /\ NoSourceFilter

ChooseSelectedMonth ==
  \E m \in Range(month_options(df_red)) :
    /\ m # selected_month
    /\ MonthRun(m)

NextMonth == ChooseSelectedMonth

SpecMonth == InitMonth /\ [][NextMonth]_vars

(***************************************************************************)
(* Calls of get_prev_month on texts of any shape.                          *)
(***************************************************************************)
YearTexts ==
  {Str("0000"), Str("0001"), Str("1000"), Str("2024"), Str("9999"), Str("202"), Str("20x4")}

MonthTexts ==
  {Str("01"), Str("02"), Str("03"), Str("04"), Str("05"), Str("06"), Str("07"), Str("08"),
   Str("09"), Str("10"), Str("11"), Str("12"),
   Str("1"), Str("2"), Str("3"), Str("4"), Str("5"), Str("6"), Str("7"), Str("8"), Str("9"),
   Str("00"), Str("13"), Str("0"), Str("1x"), Str("011"), EmptyStr}

\* The arguments: a year text, a dash and a month text, and texts without a dash,
\* with another separator or with a blank, the empty text and None.
CallInputs ==
  {y \o <<"-">> \o m : y \in YearTexts, m \in MonthTexts}
    \cup {EmptyStr, NaN, Str("2024"), Str("202401"), Str("2024/01"), Str(" 2024-01"),
          Str("2024-01 "), Str("2024-01-15")}

\* No call has returned yet.
NotReturned == <<"pending">>

InitCall ==
  /\ InitSheet(<<>>)
  /\ current_month \in CallInputs
  /\ prev_month = NotReturned
  /\ NoSessions /\ NoCurrentMonth /\ NoSourceFilter

CallGetPrevMonth ==
  /\ prev_month = NotReturned
  /\ prev_month' \in get_prev_month(current_month)
  /\ UNCHANGED <<current_month, sheet_vars, trend_vars, session_vars, month_vars, source_vars>>

NextCall == CallGetPrevMonth

SpecCall == InitCall /\ [][NextCall]_vars

(***************************************************************************)
(* The source-data section: four select boxes and the filtered rows.       *)
(***************************************************************************)
\* The row labels of the loaded frame: dropna keeps the label a row had in the
\* sheet (0 for the first row); load_data does not renumber.
load_index(sheet) ==
  LET kept == SelectSeq([i \in 1..Len(sheet) |-> i],
                        LAMBDA i : LoadRow(sheet[i])[COL_DELIVERY_MONTH] # NaN)
  IN  [k \in 1..Len(kept) |-> kept[k] - 1]

\* df[col] == value: a boolean Series on the labels of the frame.
ColumnEquals(df, index, col, value) ==
  [l \in Range(index) |->
     LET k == CHOOSE j \in 1..Len(index) : index[j] = l IN df[k][col] = value]

\* left & right of two boolean Series: the labels of both; a label that one of
\* them lacks gives False.
SeriesAnd(left, right) ==
  [l \in DOMAIN left \cup DOMAIN right |->
     IF l \in DOMAIN left /\ l \in DOMAIN right THEN left[l] /\ right[l] ELSE FALSE]

\* One `if` of the filter: the condition is narrowed when the column exists, a
\* value is chosen and the frame has rows.
Narrow(conditions, df, index, col, selected) ==
  IF col \in Columns(df) /\ selected # ALL_OPTION /\ Len(df) > 0
    THEN SeriesAnd(conditions, ColumnEquals(df, index, col, selected))
    ELSE conditions

\* pd.Series([True] * len(df)): labelled 0 .. len(df) - 1, whatever the labels of
\* the frame are.
filter_conditions(df, index, month, warehouse, freight, status) ==
  Narrow(Narrow(Narrow(Narrow([l \in 0..(Len(df) - 1) |-> TRUE],
                              df, index, COL_DELIVERY_MONTH, month),
                       df, index, COL_WAREHOUSE, warehouse),
                df, index, COL_FREIGHT, freight),
         df, index, COL_DELAY_STATUS, status)

NO_ERROR == "none"
INDEXING_ERROR == "IndexingError"

\* df_red[filter_conditions]: the conditions are matched to the rows by label; a
\* row whose label the conditions lack makes the indexing raise.
source_filter(df, index, month, warehouse, freight, status) ==
  LET conditions == filter_conditions(df, index, month, warehouse, freight, status)
      kept == SelectSeq([k \in 1..Len(df) |-> k], LAMBDA k : conditions[index[k]])
  IN  IF Len(df) = 0 THEN [error |-> NO_ERROR, rows |-> <<>>]
      ELSE IF \E l \in Range(index) : l \notin DOMAIN conditions
        THEN [error |-> INDEXING_ERROR, rows |-> <<>>]
      ELSE [error |-> NO_ERROR, rows |-> [k \in 1..Len(kept) |-> df[kept[k]]]]

\* The options of a select box: "all" and the values of the column.
filter_options(df, col) ==
  {ALL_OPTION}
    \cup (IF col \in Columns(df) THEN {df[i][col] : i \in 1..Len(df)} \ {NaN} ELSE {})

\* The sheets of this section: the rows of SheetRows in any order, each at most once.
SourceSheets ==
  UNION { { [i \in 1..k |-> SheetRows[ix[i]]] :
              ix \in { f \in [1..k -> 1..Len(SheetRows)] :
                         \A i, j \in 1..k : f[i] = f[j] => i = j } } :
          k \in 0..MaxRecordsSource }

SourceRun(month, warehouse, freight, status) ==
  /\ selected_month_filter' = month
  /\ selected_warehouse_filter' = warehouse
  /\ selected_freight_filter' = freight
  /\ selected_status_filter' = status
  /\ df_filtered' = source_filter(df_red, load_index(df_sheet), month, warehouse, freight,
                                  status)
  /\ UNCHANGED <<sheet_vars, trend_vars, session_vars, month_vars, call_vars>>

\* The first run: every select box shows "all".
InitSource ==
  /\ \E sheet \in SourceSheets : InitSheet(sheet)
  /\ selected_month_filter = ALL_OPTION /\ selected_warehouse_filter = ALL_OPTION
  /\ selected_freight_filter = ALL_OPTION /\ selected_status_filter = ALL_OPTION
  /\ df_filtered = source_filter(df_red, load_index(df_sheet), ALL_OPTION, ALL_OPTION,
                                 ALL_OPTION, ALL_OPTION)
  /\ NoSessions /\ NoCurrentMonth /\ NoCall

ChooseMonthFilter ==
  \E m \in filter_options(df_red, COL_DELIVERY_MONTH) :
    /\ m # selected_month_filter
    /\ SourceRun(m, selected_warehouse_filter, selected_freight_filter,
                 selected_status_filter)

ChooseWarehouseFilter ==
  \E w \in filter_options(df_red, COL_WAREHOUSE) :
    /\ w # selected_warehouse_filter
    /\ SourceRun(selected_month_filter, w, selected_freight_filter, selected_status_filter)

ChooseFreightFilter ==
  \E f \in filter_options(df_red, COL_FREIGHT) :
    /\ f # selected_freight_filter
    /\ SourceRun(selected_month_filter, selected_warehouse_filter, f, selected_status_filter)

ChooseStatusFilter ==
  \E st \in filter_options(df_red, COL_DELAY_STATUS) :
    /\ st # selected_status_filter
    /\ SourceRun(selected_month_filter, selected_warehouse_filter, selected_freight_filter,
                 st)

NextSource ==
  \/ ChooseMonthFilter
  \/ ChooseWarehouseFilter
  \/ ChooseFreightFilter
  \/ ChooseStatusFilter

SpecSource == InitSource /\ [][NextSource]_vars

(***************************************************************************)
(* What the claims are stated over.                                        *)
(***************************************************************************)
\* The key columns of the last run.
CurrentGroupCols == group_cols(analysis_dimension, view_mode)

\* The non-period part of the key: it names the series of a group.
SeriesCols == SelectSeq(CurrentGroupCols, LAMBDA c : c \notin {COL_DELIVERY_MONTH})

\* The positions of the data groups in df_with_avg (position 1 is the summary row).
DataIdx == 2..Len(df_with_avg)

\* The positions of the filtered records that carry the key of row.
RecordsOf(row) ==
  {j \in 1..Len(df_trend_filtered) :
     KeyOf(df_trend_filtered[j], CurrentGroupCols) = KeyOf(row, CurrentGroupCols)}

OnTimeRecordsOf(row) ==
  {j \in RecordsOf(row) : df_trend_filtered[j][COL_DELAY_STATUS] = ON_TIME}

MonthNumAt(i) == month_to_num(df_with_avg[i][COL_DELIVERY_MONTH])

SameSeries(i, j) ==
  KeyOf(df_with_avg[i], SeriesCols) = KeyOf(df_with_avg[j], SeriesCols)

\* The data groups of row i's series in an earlier period.
EarlierInSeries(i) == {j \in DataIdx : SameSeries(i, j) /\ MonthNumAt(j) < MonthNumAt(i)}

\* The one of them in the nearest period.
NearestEarlier(i) ==
  CHOOSE j \in EarlierInSeries(i) : \A k \in EarlierInSeries(i) : MonthNumAt(k) <= MonthNumAt(j)

Metrics == Range(avg_cols)

Loaded(rows) == load_data(rows)

(***************************************************************************)
(* C1: every group's record count is the number of filtered records with   *)
(* the group's key, and the counts add up to the size of the filtered      *)
(* input (no record counted twice, none left out, empty FBA number or not).*)
(***************************************************************************)
C1_CountsPartitionFiltered ==
  /\ \A i \in 1..Len(trend_data) :
       trend_data[i][COL_COUNT] = Num(Cardinality(RecordsOf(trend_data[i])))
  /\ SumSeq(Column(trend_data, COL_COUNT)) = Num(Len(df_trend_filtered))

(***************************************************************************)
(* C2: for every non-empty input and every choice of month range, status   *)
(* filter, dimension and display mode, the on-time rate of every emitted   *)
(* group is a number in [0, 1].                                            *)
(***************************************************************************)
InUnitInterval(q) == ~IsNaNum(q) /\ RLeq(Zero, q) /\ RLeq(q, Num(1))

C2_RateInUnitInterval ==
  /\ \A i \in 1..Len(trend_data) : InUnitInterval(trend_data[i][COL_RATE])
  /\ \A i \in DataIdx : InUnitInterval(df_with_avg[i][COL_RATE])

C2_Witness ==
  /\ analysis_dimension = DIM_FREIGHT
  /\ \E i \in DataIdx : df_with_avg[i][COL_RATE] = Rat(1, 2)
  /\ \E i \in DataIdx : df_with_avg[i][COL_RATE] = Num(1)

(***************************************************************************)
(* C3: the on-time rate of every emitted group is the number of the        *)
(* group's records whose status is on-time-or-better divided by the number *)
(* of the group's records.  Two records of one month and one forwarder,    *)
(* one on time and one delayed, give exactly one group with count 2 and    *)
(* rate 1/2, with no dimension and with the forwarder dimension.           *)
(***************************************************************************)
ScenarioA == Loaded(<<SheetRows[1], SheetRows[2]>>)

C3_RateIsOnTimeShare ==
  /\ \A i \in DataIdx :
       /\ RecordsOf(df_with_avg[i]) # {}
       /\ df_with_avg[i][COL_RATE] =
            Rat(Cardinality(OnTimeRecordsOf(df_with_avg[i])),
                Cardinality(RecordsOf(df_with_avg[i])))
  /\ (/\ df_red = ScenarioA
      /\ delay_filter = FILTER_ALL
      /\ view_mode = VIEW_SUMMARY
      /\ analysis_dimension \in {DIM_OVERALL, DIM_FREIGHT})
       => /\ Len(trend_data) = 1
          /\ trend_data[1][COL_COUNT] = Num(2)
          /\ trend_data[1][COL_RATE] = Rat(1, 2)
          /\ analysis_dimension = DIM_FREIGHT => trend_data[1][COL_FREIGHT] = F1

C3_Witness ==
  /\ df_red = ScenarioA
  /\ delay_filter = FILTER_ALL
  /\ view_mode = VIEW_SUMMARY
  /\ analysis_dimension = DIM_FREIGHT
  /\ Len(df_with_avg) = 2
  /\ df_with_avg[2][COL_RATE] = Rat(1, 2)

(***************************************************************************)
(* C4: for every metric and every data group that has a group of its       *)
(* series in an earlier period, the delta is the group's value minus the   *)
(* value of the series' group in the nearest earlier period present in the *)
(* result, calendar-adjacent or not.  Rate 1/2 in 2024-01 followed by rate *)
(* 1 in 2024-02 gives a rate delta of +1/2.                                *)
(***************************************************************************)
ScenarioC == Loaded(<<SheetRows[1], SheetRows[2], SheetRows[3]>>)

C4_DeltaIsValueMinusNearestEarlier ==
  /\ \A i \in DataIdx : \A c \in Metrics :
       EarlierInSeries(i) # {} =>
         df_with_avg[i][DeltaCol(c)] =
           RSub(df_with_avg[i][c], df_with_avg[NearestEarlier(i)][c])
  /\ (/\ df_red = ScenarioC
      /\ delay_filter = FILTER_ALL
      /\ view_mode = VIEW_SUMMARY
      /\ analysis_dimension = DIM_OVERALL
      /\ start_month = Str("2024-01")
      /\ end_month = Str("2024-02"))
       => /\ Len(df_with_avg) = 3
          /\ df_with_avg[2][COL_RATE] = Rat(1, 2)
          /\ df_with_avg[3][COL_RATE] = Num(1)
          /\ df_with_avg[3][DeltaCol(COL_RATE)] = Rat(1, 2)

\* A group of 2024-04 whose series has groups in 2024-01 and in 2024-02 and whose
\* values differ from those of 2024-02.
C4_Witness ==
  \E i \in DataIdx :
    /\ analysis_dimension = DIM_FREIGHT
    /\ df_with_avg[i][COL_DELIVERY_MONTH] = Str("2024-04")
    /\ Cardinality(EarlierInSeries(i)) = 2
    /\ df_with_avg[i][DeltaCol(COL_RATE)] # Zero
    /\ df_with_avg[i][DeltaCol(COL_DIFF_MEAN)] # Zero

(***************************************************************************)
(* C5: the deltas are computed inside each series (the non-period part of  *)
(* the key: dimension value and, in status-breakdown mode, status) on its  *)
(* own: every data group carries the deltas it has when its series is the  *)
(* only one in the table, whatever other series lie in between.            *)
(***************************************************************************)
SeriesAlone(i) ==
  SelectSeq(trend_data, LAMBDA r : KeyOf(r, SeriesCols) = KeyOf(df_with_avg[i], SeriesCols))

C5_DeltasPerSeries ==
  \A i \in DataIdx :
    df_with_avg[i] \in Range(WithAvgAndDiff(SeriesAlone(i), CurrentGroupCols))

\* Two groups of one series with a group of another series between them, the
\* later one with a delta that is not 0.
C5_Witness ==
  \E i, j, k \in DataIdx :
    /\ i < j /\ j < k
    /\ SameSeries(i, k)
    /\ ~SameSeries(i, j)
    /\ df_with_avg[k][DeltaCol(COL_RATE)] # Zero
    /\ df_with_avg[j][COL_RATE] # df_with_avg[i][COL_RATE]

(***************************************************************************)
(* C6: in every non-empty result, every group of the earliest period has a *)
(* delta of exactly 0 for every metric.                                    *)
(***************************************************************************)
EarliestIdx == {i \in DataIdx : \A j \in DataIdx : MonthNumAt(i) <= MonthNumAt(j)}

C6_EarliestPeriodDeltasZero ==
  \A i \in EarliestIdx : \A c \in Metrics : df_with_avg[i][DeltaCol(c)] = Zero

\* Two groups in the earliest period with different values, and a later group.
C6_Witness ==
  /\ Cardinality(EarliestIdx) = 2
  /\ Cardinality(DataIdx) = 3
  /\ \E i, j \in EarliestIdx : df_with_avg[i][COL_RATE] # df_with_avg[j][COL_RATE]

(***************************************************************************)
(* C7: in every non-empty result the first row is the summary row, also    *)
(* after the deltas of each metric have been computed; the summary row     *)
(* carries no delta (its delta cells hold no number) and is the            *)
(* predecessor of no data group.                                           *)
(***************************************************************************)
IsSummary(row) == row[COL_DELIVERY_MONTH] = AVG_LABEL

\* The table after the deltas of the first k metrics.
AfterDeltas(k) == DiffAll(WithAvgRow(trend_data), SubSeq(avg_cols, 1, k), CurrentGroupCols)

C7_SummaryRowFirstWithoutDelta ==
  Len(df_with_avg) > 0 =>
    /\ IsSummary(df_with_avg[1])
    /\ \A i \in DataIdx : ~IsSummary(df_with_avg[i])
    /\ Len(df_with_avg) = Len(trend_data) + 1
    /\ \A c \in Metrics : df_with_avg[1][DeltaCol(c)] = NaNum
    /\ \A c \in Metrics : df_with_avg[2][DeltaCol(c)] = Zero
    /\ \A k \in 0..Len(avg_cols) :
         /\ IsSummary(AfterDeltas(k)[1])
         /\ \A i \in 2..Len(AfterDeltas(k)) : ~IsSummary(AfterDeltas(k)[i])
    /\ AfterDeltas(Len(avg_cols)) = df_with_avg

C7_Witness ==
  /\ Len(df_with_avg) = 4
  /\ IsSummary(df_with_avg[1])
  /\ df_with_avg[1][COL_RATE] # df_with_avg[2][COL_RATE]
  /\ df_with_avg[3][DeltaCol(COL_RATE)] # Zero

(***************************************************************************)
(* C8: each metric of the summary row is the arithmetic mean, over the     *)
(* emitted data groups only, of the metric's per-group values; the summary *)
(* row's count is the mean of the per-group counts, not the total.         *)
(* As claimed: the mean itself.                                            *)
(***************************************************************************)
GroupValues(c) == [i \in 1..(Len(df_with_avg) - 1) |-> df_with_avg[i + 1][c]]

ExactMean(c) == RDivInt(SumSeq(GroupValues(c)), Len(GroupValues(c)))

C8_SummaryIsMeanOfGroups ==
  Len(df_with_avg) > 0 => \A c \in Metrics : df_with_avg[1][c] = ExactMean(c)

(***************************************************************************)
(* C8, amended: each metric of the summary row is that mean rounded to 2   *)
(* decimal places (4 for the on-time rate).                                *)
(***************************************************************************)
C8_SummaryIsRoundedMeanOfGroups ==
  Len(df_with_avg) > 0 =>
    \A c \in Metrics :
      df_with_avg[1][c] = Round(ExactMean(c), IF c = COL_RATE THEN 4 ELSE 2)

\* Three groups whose mean count and mean rate have no finite decimal expansion;
\* the summary count is not the number of filtered records either.
C8_Witness ==
  /\ Len(df_with_avg) = 4
  /\ df_with_avg[1][COL_RATE] = Rat(6667, 10000)
  /\ ExactMean(COL_RATE) = Rat(2, 3)
  /\ df_with_avg[1][COL_COUNT] = Rat(67, 100)
  /\ df_with_avg[1][COL_COUNT] # Num(Len(df_trend_filtered))

(***************************************************************************)
(* C9: with an empty record set the aggregation raises nothing and returns *)
(* exactly one row, the summary row, with count 0, rate 0 and every other  *)
(* metric 0, and no data group.  As claimed.                               *)
(***************************************************************************)
IsZeroSummaryOnly(table) ==
  /\ Len(table) = 1
  /\ IsSummary(table[1])
  /\ \A c \in Metrics : table[1][c] = Zero

ReversedRange ==
  /\ Len(df_red) > 0
  /\ month_to_num(start_month) > month_to_num(end_month)

C10_ReversedRangeGivesZeroSummary ==
  ReversedRange => /\ df_trend_filtered = <<>>
                   /\ IsZeroSummaryOnly(df_with_avg)

(***************************************************************************)
(* C10, amended: with the start month after the end month on a non-empty   *)
(* record set, the range filter selects no record and the result has no    *)
(* row at all, neither a summary row nor a data group; the run writes its  *)
(* no-data notices and no error.                                           *)
(***************************************************************************)
C10_ReversedRangeGivesNoRow ==
  ReversedRange =>
    /\ df_trend_filtered = <<>>
    /\ trend_data = <<>>
    /\ df_with_avg = <<>>
    /\ {NOTICE_FILTERED_EMPTY, NOTICE_NO_TABLE} \subseteq notices
    /\ notices \cap {NOTICE_NO_VALID_DATA, NOTICE_INVALID_RANGE} = {}

C10_Witness ==
  /\ ReversedRange
  /\ start_month = Str("2024-04")
  /\ end_month = Str("2024-01")
  /\ Len(df_red) = MaxRecords
  /\ NOTICE_FILTERED_EMPTY \in notices

(***************************************************************************)
(* C11: the period filter keeps exactly the records whose integer period   *)
(* key k satisfies num(start) <= k <= num(end): the records of the start   *)
(* month and of the end month are kept, every record outside is removed    *)
(* (the status and dimension filters act on what it keeps).                *)
(***************************************************************************)
PeriodKey(r) == month_to_num(r[COL_DELIVERY_MONTH])

InPeriodRange(r) ==
  /\ month_to_num(start_month) <= PeriodKey(r)
  /\ PeriodKey(r) <= month_to_num(end_month)

C11_PeriodFilterInclusive ==
  Len(df_red) > 0 =>
    /\ df_trend_filtered =
         DimensionFilter(StatusFilter(SelectSeq(df_red, InPeriodRange), delay_filter),
                         analysis_dimension, selected_dimension)
    /\ \A i \in 1..Len(df_trend_filtered) : InPeriodRange(df_trend_filtered[i])
    /\ (delay_filter = FILTER_ALL /\ selected_dimension = NoSelection) =>
         \A j \in 1..Len(df_red) :
           InPeriodRange(df_red[j]) => df_red[j] \in Range(df_trend_filtered)

\* A range of two months: the record of the start month and the record of the
\* end month are kept, the record of a later month is removed.
C11_Witness ==
  /\ start_month = Str("2024-01")
  /\ end_month = Str("2024-02")
  /\ delay_filter = FILTER_ALL
  /\ Len(df_red) = 3
  /\ Len(df_trend_filtered) = 2
  /\ PeriodKey(df_trend_filtered[1]) = 202401
  /\ PeriodKey(df_trend_filtered[2]) = 202402
  /\ \E j \in 1..Len(df_red) : PeriodKey(df_red[j]) = 202404

(***************************************************************************)
(* C12: a record whose period is malformed gets the integer key 0, is      *)
(* never dropped for that reason (it is in the result for any valid month  *)
(* range) and its group sorts before every well-formed period.             *)
(* As claimed.                                                             *)
(***************************************************************************)
MalformedPeriod(raw) == to_datetime(raw[COL_DELIVERY_MONTH]) = NaT

MalformedIdx == {i \in 1..Len(df_sheet) : MalformedPeriod(df_sheet[i])}

C12_MalformedPeriodKeptInFront ==
  \A i \in MalformedIdx :
    /\ PeriodKey(LoadRow(df_sheet[i])) = 0
    /\ LoadRow(df_sheet[i]) \in Range(df_red)
    /\ (delay_filter = FILTER_ALL /\ selected_dimension = NoSelection) =>
         /\ Len(trend_data) > 0
         /\ PeriodKey(trend_data[1]) = 0

(***************************************************************************)
(* C12, amended: a period that is no date is a missing value after the     *)
(* load and its integer key is 0, but the record is removed when the sheet *)
(* is loaded: the loaded records are the sheet's records with a            *)
(* well-formed period, in the sheet's order, and no filtered record and no *)
(* group of any result has the key 0.                                      *)
(***************************************************************************)
C12_MalformedPeriodDroppedAtLoad ==
  /\ \A i \in MalformedIdx :
       /\ LoadRow(df_sheet[i])[COL_DELIVERY_MONTH] = NaN
       /\ PeriodKey(LoadRow(df_sheet[i])) = 0
  /\ Len(df_red) = Len(df_sheet) - Cardinality(MalformedIdx)
  /\ df_red = [j \in 1..Len(df_red) |->
                 LoadRow(SelectSeq(df_sheet, LAMBDA raw : ~MalformedPeriod(raw))[j])]
  /\ \A j \in 1..Len(df_red) : PeriodKey(df_red[j]) > 0
  /\ \A j \in 1..Len(df_trend_filtered) : PeriodKey(df_trend_filtered[j]) > 0
  /\ \A g \in 1..Len(trend_data) : PeriodKey(trend_data[g]) > 0
  /\ \A g \in DataIdx : PeriodKey(df_with_avg[g]) > 0

\* A sheet with a record whose period is no date beside two records of different
\* months, all filters open: the result has the two months only.
C12_Witness ==
  /\ Cardinality(MalformedIdx) = 1
  /\ Len(df_sheet) = 3
  /\ Len(df_red) = 2
  /\ delay_filter = FILTER_ALL
  /\ selected_dimension = NoSelection
  /\ start_month # end_month
  /\ Len(trend_data) = 2

(***************************************************************************)
(* C13: the status filter "all" keeps every period-filtered record, "only  *)
(* on time" keeps exactly the records whose status is on time, "only       *)
(* delayed" exactly the delayed ones; a record with any other status (here *)
(* an empty one) is kept only under "all".                                 *)
(***************************************************************************)
StatusKeeps(r) ==
  \/ delay_filter = FILTER_ALL
  \/ delay_filter = FILTER_ON_TIME /\ r[COL_DELAY_STATUS] = ON_TIME
  \/ delay_filter = FILTER_DELAYED /\ r[COL_DELAY_STATUS] = DELAYED

PeriodFiltered == MonthRangeFilter(df_red, start_month, end_month)

C13_StatusFilterKeepsExactly ==
  Len(df_red) > 0 =>
    /\ df_trend_filtered =
         DimensionFilter(SelectSeq(PeriodFiltered, StatusKeeps),
                         analysis_dimension, selected_dimension)
    /\ \A i \in 1..Len(df_trend_filtered) :
         /\ delay_filter = FILTER_ON_TIME => df_trend_filtered[i][COL_DELAY_STATUS] = ON_TIME
         /\ delay_filter = FILTER_DELAYED => df_trend_filtered[i][COL_DELAY_STATUS] = DELAYED
         /\ df_trend_filtered[i][COL_DELAY_STATUS] \notin {ON_TIME, DELAYED}
              => delay_filter = FILTER_ALL
    /\ (delay_filter = FILTER_ALL /\ selected_dimension = NoSelection)
         => df_trend_filtered = PeriodFiltered

\* One month with an on-time record and a record without status: "only on time"
\* keeps the first alone.
C13_Witness ==
  /\ delay_filter = FILTER_ON_TIME
  /\ Len(PeriodFiltered) = 2
  /\ \E j \in 1..Len(PeriodFiltered) : PeriodFiltered[j][COL_DELAY_STATUS] = NaN
  /\ Len(df_trend_filtered) = 1
  /\ df_trend_filtered[1][COL_DELAY_STATUS] = ON_TIME

(***************************************************************************)
(* C14: in the status-detail view the result has exactly one data row per  *)
(* distinct (period, dimension value, status) combination of the filtered  *)
(* records; in the summary view exactly one per distinct (period,          *)
(* dimension value) combination, per period when no dimension is chosen.   *)
(* A combination is one of values: a record with an empty key cell has     *)
(* none (C16 is about those records).                                      *)
(***************************************************************************)
ClaimedKeyCols ==
  {COL_DELIVERY_MONTH}
    \cup (IF analysis_dimension = DIM_FREIGHT THEN {COL_FREIGHT}
          ELSE IF analysis_dimension = DIM_WAREHOUSE THEN {COL_WAREHOUSE} ELSE {})
    \cup (IF view_mode = VIEW_DETAIL THEN {COL_DELAY_STATUS} ELSE {})

KeyOn(r, cols) == [c \in cols |-> r[c]]

\* The combinations of key values occurring in the filtered records.
CombinationsFiltered ==
  {k \in {KeyOn(df_trend_filtered[j], ClaimedKeyCols) : j \in 1..Len(df_trend_filtered)} :
     \A c \in ClaimedKeyCols : k[c] # NaN}

ComesBefore(a, b) ==
  \/ PeriodKey(a) < PeriodKey(b)
  \/ PeriodKey(a) = PeriodKey(b) /\ TextLess(SeriesCols, a, b)

Ascending(rows) ==
  \A i, j \in 1..Len(rows) : i < j => ComesBefore(rows[i], rows[j])

C15_GroupsInPeriodThenDimensionOrder ==
  /\ Ascending(trend_data)
  /\ Len(df_with_avg) > 0 =>
       /\ Ascending(Tail(df_with_avg))
       /\ analysis_dimension = DIM_FREIGHT =>
            \A i, j \in DataIdx :
              (i < j /\ PeriodKey(df_with_avg[i]) = PeriodKey(df_with_avg[j]))
                => \/ StrLess(df_with_avg[i][COL_FREIGHT], df_with_avg[j][COL_FREIGHT])
                   \/ df_with_avg[i][COL_FREIGHT] = df_with_avg[j][COL_FREIGHT]

\* By forwarder: two forwarders in the later month, which the sheet lists in
\* the opposite order, after a group of an earlier month, with a delta.
C15_Witness ==
  /\ analysis_dimension = DIM_FREIGHT
  /\ Len(df_with_avg) = 4
  /\ PeriodKey(df_with_avg[2]) < PeriodKey(df_with_avg[3])
  /\ PeriodKey(df_with_avg[3]) = PeriodKey(df_with_avg[4])
  /\ df_with_avg[3][COL_FREIGHT] = F1
  /\ df_with_avg[4][COL_FREIGHT] = F2
  /\ df_red[2][COL_FREIGHT] = F2
  /\ df_red[3][COL_FREIGHT] = F1
  /\ df_with_avg[3][DeltaCol(COL_RATE)] # Zero

(***************************************************************************)
(* C16: every key tuple that at least one filtered record has is a data    *)
(* group of the result, also when the record's forwarder, warehouse or     *)
(* status cell is empty, and no data group without a matching record is    *)
(* emitted.                                                                *)
(***************************************************************************)
C16_EveryFilteredKeyHasGroup ==
  /\ \A j \in 1..Len(df_trend_filtered) :
       \E g \in 1..Len(trend_data) :
         KeyOn(trend_data[g], ClaimedKeyCols) = KeyOn(df_trend_filtered[j], ClaimedKeyCols)
  /\ \A g \in 1..Len(trend_data) : RecordsOf(trend_data[g]) # {}

(***************************************************************************)
(* C17: a run with the same arguments on the unmodified record set gives   *)
(* the same output: whatever runs came before, the filtered frame, the     *)
(* trend table and the table with summary row and deltas of the last run   *)
(* are those of another run with the arguments of the last one (the same   *)
(* rows in the same order with the same metric and delta values).          *)
(***************************************************************************)
AgainFiltered ==
  RunFilter(df_red, analysis_dimension, start_month, end_month, delay_filter,
            selected_dimension)

AgainTrend ==
  RunAggregate(df_red, start_month, end_month, AgainFiltered, CurrentGroupCols)

AgainTable == RunTable(df_red, start_month, end_month, AgainTrend, CurrentGroupCols)

C18_InputNeverMutated ==
  [][df_red' = df_red /\ df_sheet' = df_sheet]_vars

\* After runs whose filters removed records: three records loaded, one left by
\* the month range, the status filter and the chosen forwarder.
C18_Witness ==
  /\ Len(df_red) = 3
  /\ df_red = load_data(df_sheet)
  /\ analysis_dimension = DIM_FREIGHT
  /\ selected_dimension = F1
  /\ delay_filter = FILTER_DELAYED
  /\ start_month # end_month
  /\ Len(df_trend_filtered) = 1
  /\ Len(df_with_avg) = 2

(***************************************************************************)
(* C20: a record without period or without status is left out of every    *)
(* group, without an error, and the number of records left out is reported *)
(* with the result.  Stated on what the groups show: no loaded record      *)
(* lacks its period, every group has a record with a status, and its       *)
(* on-time rate is taken over its records with a status only.              *)
(***************************************************************************)
WithStatus(idx) == {j \in idx : df_trend_filtered[j][COL_DELAY_STATUS] # NaN}

C20_IncompleteRecordsLeftOut ==
  /\ \A j \in 1..Len(df_red) : df_red[j][COL_DELIVERY_MONTH] # NaN
  /\ \A g \in 1..Len(trend_data) :
       /\ WithStatus(RecordsOf(trend_data[g])) # {}
       /\ trend_data[g][COL_RATE] =
            Rat(Cardinality(OnTimeRecordsOf(trend_data[g])),
                Cardinality(WithStatus(RecordsOf(trend_data[g]))))

(***************************************************************************)
(* C19: an unknown status filter or dimension, also a dimension whose      *)
(* column is not available, is signalled as an invalid-argument error and  *)
(* never replaced by a default such as the no-dimension aggregation.       *)
(* As claimed, for the dimension without column: an error and no result of *)
(* the no-dimension aggregation in its place.                              *)
(***************************************************************************)
DimensionUnavailable ==
  /\ Len(df_red) > 0
  /\ \/ trend_dimension = DIM_FREIGHT /\ COL_FREIGHT \notin Columns(df_red)
     \/ trend_dimension = DIM_WAREHOUSE /\ COL_WAREHOUSE \notin Columns(df_red)

ColumnNotices == {NOTICE_NO_FREIGHT_COLUMN, NOTICE_NO_WAREHOUSE_COLUMN}

C19_UnavailableDimensionIsErrorOnly ==
  DimensionUnavailable =>
    /\ notices \cap ColumnNotices # {}
    /\ analysis_dimension # DIM_OVERALL
    /\ trend_data = <<>>
    /\ df_with_avg = <<>>

(***************************************************************************)
(* C19, amended: the status filter and the dimension come from fixed lists *)
(* of options, so no unknown value reaches a run.  A dimension whose       *)
(* column is not in the sheet is reported with an error message, and the   *)
(* run goes on with the no-dimension aggregation in its place and returns  *)
(* that result; with the column in the sheet the chosen dimension is used  *)
(* and no such message is written.                                         *)
(***************************************************************************)
C19_UnavailableDimensionFallsBackWithError ==
  /\ trend_dimension \in {DIM_OVERALL, DIM_FREIGHT, DIM_WAREHOUSE}
  /\ delay_filter \in {FILTER_ALL, FILTER_ON_TIME, FILTER_DELAYED}
  /\ DimensionUnavailable =>
       /\ notices \cap ColumnNotices =
            {IF trend_dimension = DIM_FREIGHT THEN NOTICE_NO_FREIGHT_COLUMN
             ELSE NOTICE_NO_WAREHOUSE_COLUMN}
       /\ analysis_dimension = DIM_OVERALL
       /\ selected_dimension = NoSelection
       /\ trend_data = Aggregate(df_trend_filtered, group_cols(DIM_OVERALL, view_mode))
       /\ df_with_avg = WithAvgAndDiff(trend_data, group_cols(DIM_OVERALL, view_mode))
  /\ ~DimensionUnavailable =>
       /\ notices \cap ColumnNotices = {}
       /\ analysis_dimension = trend_dimension

\* A sheet without the forwarder column, the radio on "by forwarder", and a
\* later run with another status filter: the table of the overall trend.
C19_Witness ==
  /\ DimensionUnavailable
  /\ trend_dimension = DIM_FREIGHT
  /\ delay_filter = FILTER_DELAYED
  /\ NOTICE_NO_FREIGHT_COLUMN \in notices
  /\ Len(df_with_avg) = 2
  /\ DOMAIN df_with_avg[2] \cap {COL_FREIGHT, COL_WAREHOUSE} = {}

(***************************************************************************)
(* C21: a value of a numeric field that is no number is treated as missing *)
(* and left out of the group mean of the field (the mean is taken over the *)
(* other values); it does not count as a 0.  As claimed.                   *)
(***************************************************************************)
\* The sheet row a loaded record comes from.
RawOf(r) == CHOOSE raw \in Range(df_sheet) : LoadRow(raw) = r

\* The filtered records of a group, and the values the sheet has for them in col.
GroupRecords(row) ==
  SelectSeq(df_trend_filtered,
            LAMBDA r : KeyOf(r, CurrentGroupCols) = KeyOf(row, CurrentGroupCols))

RawValues(row, col) ==
  [i \in 1..Len(GroupRecords(row)) |-> RawOf(GroupRecords(row)[i])[col]]

ZeroFilled(vals) == [i \in 1..Len(vals) |-> IF IsNaNum(vals[i]) THEN Zero ELSE vals[i]]

C21_NonNumericLeftOutOfMean ==
  \A g \in 1..Len(trend_data) :
    /\ SelectNums(RawValues(trend_data[g], COL_DIFF)) # <<>> =>
         trend_data[g][COL_DIFF_MEAN] = Mean(RawValues(trend_data[g], COL_DIFF))
    /\ SelectNums(RawValues(trend_data[g], COL_ABS_DIFF)) # <<>> =>
         trend_data[g][COL_ABS_DIFF_MEAN] = Mean(RawValues(trend_data[g], COL_ABS_DIFF))

(***************************************************************************)
(* C21, amended: a value of a numeric field that is no number is replaced  *)
(* by 0 when the sheet is loaded and counts as a 0 in the group mean of    *)
(* the field: the mean is the sum of the numeric values divided by the     *)
(* number of all records of the group.                                     *)
(***************************************************************************)
C21_NonNumericCountsAsZero ==
  /\ \A j \in 1..Len(df_red) :
       /\ ~IsNaNum(df_red[j][COL_DIFF])
       /\ ~IsNaNum(df_red[j][COL_ABS_DIFF])
       /\ IsNaNum(RawOf(df_red[j])[COL_DIFF]) => df_red[j][COL_DIFF] = Zero
  /\ \A g \in 1..Len(trend_data) :
       /\ trend_data[g][COL_DIFF_MEAN] =
            RDivInt(SumSeq(ZeroFilled(RawValues(trend_data[g], COL_DIFF))),
                    Len(GroupRecords(trend_data[g])))
       /\ trend_data[g][COL_ABS_DIFF_MEAN] =
            RDivInt(SumSeq(ZeroFilled(RawValues(trend_data[g], COL_ABS_DIFF))),
                    Len(GroupRecords(trend_data[g])))

\* A month with a deviation of 1 and a deviation that is no number: mean 1/2.
C21_Witness ==
  \E g \in 1..Len(trend_data) :
    /\ Len(GroupRecords(trend_data[g])) = 2
    /\ Len(SelectNums(RawValues(trend_data[g], COL_DIFF))) = 1
    /\ Mean(RawValues(trend_data[g], COL_DIFF)) = Num(1)
    /\ trend_data[g][COL_DIFF_MEAN] = Rat(1, 2)

(***************************************************************************)
(* C22: no metric of any output row is a missing value (NaN): a field that *)
(* is missing for all records of a group has the mean 0 and a rate over no *)
(* record is 0.  The rows are those of the trend table, the summary row    *)
(* and the data rows with their deltas.                                    *)
(***************************************************************************)
C22_NoMissingMetric ==
  /\ \A g \in 1..Len(trend_data) : \A c \in Metrics : ~IsNaNum(trend_data[g][c])
  /\ \A i \in 1..Len(df_with_avg) : \A c \in Metrics : ~IsNaNum(df_with_avg[i][c])
  /\ \A i \in DataIdx : \A c \in Metrics : ~IsNaNum(df_with_avg[i][DeltaCol(c)])
  /\ \A g \in 1..Len(trend_data) :
       SelectNums(RawValues(trend_data[g], COL_DIFF)) = <<>>
         => trend_data[g][COL_DIFF_MEAN] = Zero
  /\ RateOf(<<>>) = Zero

\* Two groups, one of them of a single record whose deviation is no number.
C22_Witness ==
  /\ Len(trend_data) = 2
  /\ \E g \in 1..Len(trend_data) :
       /\ SelectNums(RawValues(trend_data[g], COL_DIFF)) = <<>>
       /\ trend_data[g][COL_DIFF_MEAN] = Zero
       /\ trend_data[g][COL_RATE] = Zero
  /\ df_with_avg[1][COL_DIFF_MEAN] # Zero

\* The filters of the run keep no record of the loaded sheet.
NoRecordSelected ==
  RunsTrend(df_red, start_month, end_month)
    /\ FilterTrend(df_red, start_month, end_month, delay_filter, analysis_dimension,
                   selected_dimension) = <<>>

(***************************************************************************)
(* C23: when the filters select no record the run writes a no-data notice  *)
(* in the table column and in the chart column and shows no trend table,   *)
(* no chart and no download link.                                          *)
(***************************************************************************)
C23_NoRecordGivesNoDataNotice ==
  NoRecordSelected =>
    /\ NOTICE_FILTERED_EMPTY \in notices
    /\ NOTICE_NO_CHART \in ChartNotices(df_red, start_month, end_month, trend_data, view_mode)
    /\ ~ShowsTable(df_red, start_month, end_month, trend_data)
    /\ ~ShowsChart(df_red, start_month, end_month, trend_data, view_mode)
    /\ ~ShowsDownloadLink(df_red, start_month, end_month, trend_data)
    /\ df_with_avg = <<>>

\* The status filter keeps nothing of a month range that has records.
C23_Witness ==
  /\ NoRecordSelected
  /\ delay_filter # FILTER_ALL
  /\ FilterTrend(df_red, start_month, end_month, FILTER_ALL, analysis_dimension,
                 selected_dimension) # <<>>
  /\ NOTICE_FILTERED_EMPTY \in notices

\* What a run on its own returns for the widgets of session s.
AloneFiltered(s) ==
  RunFilter(df_red, DIM_OVERALL, start_month, end_month, sessions[s].delay_filter,
            NoSelection)

AloneTrend(s) ==
  RunAggregate(df_red, start_month, end_month, AloneFiltered(s),
               group_cols(DIM_OVERALL, sessions[s].view_mode))

C25_RateFixedByStatus ==
  /\ delay_filter = FILTER_DELAYED =>
       \A g \in 1..Len(trend_data) : trend_data[g][COL_RATE] = Zero
  /\ delay_filter = FILTER_ON_TIME =>
       \A g \in 1..Len(trend_data) : trend_data[g][COL_RATE] = Num(1)
  /\ view_mode = VIEW_DETAIL =>
       \A g \in 1..Len(trend_data) :
         trend_data[g][COL_RATE] =
           (IF trend_data[g][COL_DELAY_STATUS] = ON_TIME THEN Num(1) ELSE Zero)
  /\ (view_mode = VIEW_DETAIL \/ delay_filter # FILTER_ALL) =>
       \A i \in DataIdx : df_with_avg[i][DeltaCol(COL_RATE)] = Zero

\* The view with the status, all orders: a period with an on-time and a delayed
\* group, and an on-time group in a later period.
C25_Witness ==
  /\ view_mode = VIEW_DETAIL /\ delay_filter = FILTER_ALL
  /\ \E g, h, k \in 1..Len(trend_data) :
       /\ trend_data[g][COL_DELIVERY_MONTH] = trend_data[h][COL_DELIVERY_MONTH]
       /\ trend_data[g][COL_RATE] = Num(1) /\ trend_data[h][COL_RATE] = Zero
       /\ trend_data[k][COL_DELIVERY_MONTH] # trend_data[g][COL_DELIVERY_MONTH]
       /\ trend_data[k][COL_DELAY_STATUS] = ON_TIME
  /\ \A i \in DataIdx : df_with_avg[i][DeltaCol(COL_RATE)] = Zero

\* The column of the chosen forwarder / warehouse.
SelectedCol == IF analysis_dimension = DIM_FREIGHT THEN COL_FREIGHT ELSE COL_WAREHOUSE

\* The key of a data row without the dimension value.
PeriodStatusCols == SelectSeq(CurrentGroupCols, LAMBDA c : c \notin {COL_FREIGHT, COL_WAREHOUSE})

(***************************************************************************)
(* C26: no two data rows of the trend table have the same key; with one    *)
(* forwarder (warehouse) chosen every data row carries it, so there is at  *)
(* most one row per period (per period and status in the view with the     *)
(* status).                                                                *)
(***************************************************************************)
C26_KeysUniqueAndOfSelection ==
  /\ \A g, h \in 1..Len(trend_data) :
       KeyOf(trend_data[g], CurrentGroupCols) = KeyOf(trend_data[h], CurrentGroupCols) => g = h
  /\ \A i, j \in DataIdx :
       KeyOf(df_with_avg[i], CurrentGroupCols) = KeyOf(df_with_avg[j], CurrentGroupCols) => i = j
  /\ selected_dimension # NoSelection =>
       /\ \A g \in 1..Len(trend_data) : trend_data[g][SelectedCol] = selected_dimension
       /\ \A i \in DataIdx : df_with_avg[i][SelectedCol] = selected_dimension
       /\ \A g, h \in 1..Len(trend_data) :
            KeyOf(trend_data[g], PeriodStatusCols) = KeyOf(trend_data[h], PeriodStatusCols)
              => g = h

\* One forwarder chosen out of two that have a record in the same period.
C26_Witness ==
  /\ selected_dimension # NoSelection
  /\ analysis_dimension = DIM_FREIGHT
  /\ Len(trend_data) >= 2
  /\ \E r \in Range(df_red) :
       /\ r[COL_FREIGHT] \notin {NaN, selected_dimension}
       /\ r[COL_DELIVERY_MONTH] = trend_data[1][COL_DELIVERY_MONTH]
  /\ \A g \in 1..Len(trend_data) : trend_data[g][COL_FREIGHT] = selected_dimension

\* The calendar month before the chosen one, as the number YYYYMM.
CalendarPrev ==
  LET n == month_to_num(selected_month)
  IN  IF n % 100 = 1 THEN n - 89 ELSE n - 1

RowsOfMonthNum(n) == SelectSeq(df_red, LAMBDA r : month_to_num(r[COL_DELIVERY_MONTH]) = n)

\* The months of the sheet before the chosen one.
EarlierMonths == {m \in Range(month_options(df_red)) : StrLess(m, selected_month)}

\* What the five cards compare, taken of a list of records.
Measures(rows) ==
  [fba |-> Num(Len(rows)),
   on_time |-> Num(Len(SelectSeq(rows, LAMBDA r : r[COL_DELAY_STATUS] = ON_TIME))),
   delay |-> Num(Len(SelectSeq(rows, LAMBDA r : r[COL_DELAY_STATUS] = DELAYED))),
   abs_avg |-> IF rows = <<>> THEN Zero ELSE Mean(Column(rows, COL_ABS_DIFF)),
   diff_avg |-> IF rows = <<>> THEN Zero ELSE Mean(Column(rows, COL_DIFF))]

CardNames == {"fba", "on_time", "delay", "abs_avg", "diff_avg"}

(***************************************************************************)
(* C27: every core card compares the chosen month with the calendar month  *)
(* before it, whatever months the sheet has: without a record of that      *)
(* month the previous value is 0 and the change is the current value; the  *)
(* card points up in red for a change above 0, down in green for one below *)
(* 0 and is neutral gray for the change 0.                                 *)
(***************************************************************************)
C27_CardsCompareCalendarPrevious ==
  selected_month \in Range(month_options(df_red)) =>
    \A c \in CardNames :
      LET card == core_cards[c]
      IN  /\ card.current = Measures(RowsOfMonthNum(month_to_num(selected_month)))[c]
          /\ card.prev = Measures(RowsOfMonthNum(CalendarPrev))[c]
          /\ card.change = RSub(card.current, card.prev)
          /\ RowsOfMonthNum(CalendarPrev) = <<>> =>
               card.prev = Zero /\ card.change = card.current
          /\ (card.arrow = ARROW_UP /\ card.color = "red") <=> card.change[1] > 0
          /\ (card.arrow = ARROW_DOWN /\ card.color = "green") <=> card.change[1] < 0
          /\ (card.arrow = ARROW_NONE /\ card.color = "gray") <=> card.change[1] = 0

\* March is chosen in a sheet with January and without February.
C27_Witness ==
  /\ selected_month \in Range(month_options(df_red))
  /\ RowsOfMonthNum(CalendarPrev) = <<>>
  /\ EarlierMonths # {}
  /\ core_cards.fba.prev = Zero
  /\ core_cards.fba.change = core_cards.fba.current
  /\ core_cards.fba.arrow = ARROW_UP
  /\ core_cards.diff_avg.change[1] # 0

\* The rounded deviations of the records of the chosen month.
DaysOfMonth == diff_data(df_current(df_red, selected_month))

BarsOf(h) == Range(h.early) \cup Range(h.delay)

(***************************************************************************)
(* C29: every record of the chosen month with a deviation is counted in    *)
(* exactly one bucket, of the early / on-time list when its rounded        *)
(* deviation is at least 0 and of the delayed list when it is below 0, and *)
(* the counts add up to the number of these records; every bar is 0 to 20  *)
(* characters long and the bar of a bucket with the largest count is 20    *)
(* characters long.                                                        *)
(***************************************************************************)
C29_HistogramPartitionsAndScales ==
  selected_month \in Range(month_options(df_red)) =>
    /\ \A b \in Range(histogram.early) : b.day >= 0
    /\ \A b \in Range(histogram.delay) : b.day < 0
    /\ \A i, j \in 1..Len(histogram.early) : histogram.early[i].day = histogram.early[j].day => i = j
    /\ \A i, j \in 1..Len(histogram.delay) : histogram.delay[i].day = histogram.delay[j].day => i = j
    /\ \A d \in Range(DaysOfMonth) :
         \E b \in BarsOf(histogram) :
           b.day = d /\ b.count = Cardinality({i \in 1..Len(DaysOfMonth) : DaysOfMonth[i] = d})
    /\ \A b \in BarsOf(histogram) : b.day \in Range(DaysOfMonth)
    /\ SumSeq([i \in 1..Len(histogram.early) |-> Num(histogram.early[i].count)]
                \o [i \in 1..Len(histogram.delay) |-> Num(histogram.delay[i].count)])
         = Num(Len(df_current(df_red, selected_month)))
    /\ \A b \in BarsOf(histogram) :
         /\ b.length \in 0..max_display_length
         /\ (\A o \in BarsOf(histogram) : o.count <= b.count) => b.length = max_display_length

\* Three records in the bucket +2 (2, 1.5 and 2.5 days) and one in another: the
\* smaller bar is a third of 20, cut to 6.
C29_Witness ==
  /\ selected_month \in Range(month_options(df_red))
  /\ \E b, o \in BarsOf(histogram) :
       /\ b.day = 2 /\ b.count = 3 /\ b.length = max_display_length
       /\ o.count = 1 /\ o.length = 6

\* A text of the shape YYYY-MM with a month 01..12.
WellFormedPeriod(s) ==
  /\ Len(s) = 7
  /\ \A i \in {1, 2, 3, 4, 6, 7} : IsDigit(s[i])
  /\ s[5] = "-"
  /\ 10 * DigitTable[s[6]] + DigitTable[s[7]] \in 1..12

\* The calendar month before a well-formed period, as a text YYYY-MM (there is
\* none before 0000-01).
ExpectedPrev(s) ==
  LET y == 1000 * DigitTable[s[1]] + 100 * DigitTable[s[2]] + 10 * DigitTable[s[3]]
             + DigitTable[s[4]]
      m == 10 * DigitTable[s[6]] + DigitTable[s[7]]
      py == IF m = 1 THEN y - 1 ELSE y
      pm == IF m = 1 THEN 12 ELSE m - 1
  IN  IF py < 0 THEN <<"none">>
      ELSE << DigitChar(py \div 1000), DigitChar((py \div 100) % 10),
              DigitChar((py \div 10) % 10), DigitChar(py % 10),
              "-", DigitChar(pm \div 10), DigitChar(pm % 10) >>

(***************************************************************************)
(* C28: get_prev_month returns the calendar month before a well-formed     *)
(* text YYYY-MM, as a text YYYY-MM, and the empty text for every other     *)
(* argument.                                                               *)
(***************************************************************************)
C28_PrevMonthOrEmpty ==
  prev_month # NotReturned =>
    prev_month = (IF current_month # NaN /\ WellFormedPeriod(current_month)
                    THEN ExpectedPrev(current_month)
                    ELSE EmptyStr)

\* A record passes a select box on "all" and one that shows its value.
Passes(r, col, selected) == selected = ALL_OPTION \/ r[col] = selected

SatisfiesSelected(r) ==
  /\ Passes(r, COL_DELIVERY_MONTH, selected_month_filter)
  /\ Passes(r, COL_WAREHOUSE, selected_warehouse_filter)
  /\ Passes(r, COL_FREIGHT, selected_freight_filter)
  /\ Passes(r, COL_DELAY_STATUS, selected_status_filter)

(***************************************************************************)
(* C30: the source-data filter returns exactly the records that satisfy    *)
(* every select box that shows a value, in the order of the sheet: all the *)
(* records with the four boxes on "all"; it does not raise.                *)
(***************************************************************************)
C30_SourceFilterExact ==
  /\ df_filtered.error = NO_ERROR
  /\ df_filtered.rows = SelectSeq(df_red, SatisfiesSelected)

====
